---- MODULE Spec2Model ----
(***************************************************************************)
(* A model of calcu, a unit-aware calculator: the unit catalog, the        *)
(* measure-value algebra (Add, Sub, Mul, Div, Neg, To), the statement      *)
(* grammar and the tree-walking interpreter with its host-call bridge.     *)
(***************************************************************************)
EXTENDS Integers, Sequences, FiniteSets, TLC

VARIABLES mvvars, outvars, lastError, status, result, err, nlines, nruns,
          printed, last, opA, opB, opOut, fnsGiven, intrp, lookup, scan

vars == <<mvvars, outvars, lastError, status, result, err, nlines, nruns,
          printed, last, opA, opB, opOut, fnsGiven, intrp, lookup, scan>>

(***************************************************************************)
(* Bounds of the model.                                                    *)
(***************************************************************************)
MaxLines == 3
MaxRuns == 2
MaxVal == 2000
MaxFuncs == 2

(***************************************************************************)
(* Exact decimals.  A decimal is a reduced fraction n/d with d > 0; the    *)
(* values of the model keep denominators of the form 2^i * 5^j, for which  *)
(* the decimal library's Add, Sub, Mul and Div are exact.                  *)
(***************************************************************************)
Abs(x) == IF x < 0 THEN -x ELSE x

RECURSIVE GCD(_, _)
GCD(a, b) == IF b = 0 THEN a ELSE GCD(b, a % b)

Rat(n, d) ==
  LET g == GCD(Abs(n), Abs(d))
      s == IF d < 0 THEN -1 ELSE 1
  IN  [n |-> (s * n) \div g, d |-> (s * d) \div g]

Dec(n) == [n |-> n, d |-> 1]
Zero == Dec(0)

DAdd(x, y) == Rat(x.n * y.d + y.n * x.d, x.d * y.d)
DSub(x, y) == Rat(x.n * y.d - y.n * x.d, x.d * y.d)
DMul(x, y) == Rat(x.n * y.n, x.d * y.d)
DNeg(x) == [n |-> -x.n, d |-> x.d]
\* decimal.Div panics on a zero divisor; callers test IsZero first
DDiv(x, y) == Rat(x.n * y.d, x.d * y.n)
IsZero(x) == x.n = 0

(***************************************************************************)
(* Dimensions.                                                             *)
(***************************************************************************)
DimInvalid == 0
DimEnergy == 1
DimMass == 2
DimVolume == 3
DimTime == 4
DimLength == 5

(***************************************************************************)
(* Unit names are strings of characters.                                   *)
(***************************************************************************)
NoUnit == << >>
n_kg == <<"k", "g">>
n_Mg == <<"M", "g">>
n_m3 == <<"m", "3">>
n_km3 == <<"1", "0", "^", "3", "m", "3">>
n_m == <<"m">>
n_J == <<"J">>
n_s == <<"s">>

\* the rows of the unit table the tests and the scenarios use
MetaRow(name, dim, si, factor) ==
  [kind |-> "meta", name |-> name, dimension |-> dim, si |-> si,
   siFactor |-> Dec(factor), siOffset |-> Zero]

MetaUnits ==
  << MetaRow(n_kg, DimMass, n_kg, 1),
     MetaRow(n_Mg, DimMass, n_kg, 1000),
     MetaRow(n_m3, DimVolume, n_m3, 1),
     MetaRow(n_km3, DimVolume, n_m3, 1000),
     MetaRow(n_m, DimLength, n_m, 1),
     MetaRow(n_J, DimEnergy, n_J, 1),
     MetaRow(n_s, DimTime, n_s, 1) >>

MetaSet == {MetaUnits[i] : i \in DOMAIN MetaUnits}

newCompoundUnit(num, den) ==
  [kind |-> "compound", Numerator |-> num, Denominator |-> den,
   SiFactor |-> DDiv(num.siFactor, den.siFactor)]

IsMeta(u) == u.kind = "meta"

Name(u) ==
  IF IsMeta(u) THEN u.name
  ELSE u.Numerator.name \o <<"/">> \o u.Denominator.name

Dimension(u) == IF IsMeta(u) THEN u.dimension ELSE DimInvalid

SiName(u) ==
  IF IsMeta(u) THEN u.si
  ELSE u.Numerator.si \o <<"/">> \o u.Denominator.si

SiFactor(u) == IF IsMeta(u) THEN u.siFactor ELSE u.SiFactor
SiOffset(u) == IF IsMeta(u) THEN u.siOffset ELSE Zero

\* permute(arr, ans, dims, 2): the ordered pairs of distinct dimensions
Dims == {DimEnergy, DimMass, DimVolume, DimTime, DimLength}

\* permute without the test that a dimension is not yet in arr
permute_withRepeats == Dims \X Dims

permute == {p \in Dims \X Dims : p[1] # p[2]}

CompoundSet ==
  {newCompoundUnit(n, d) : <<n, d>> \in
     {q \in MetaSet \X MetaSet : <<q[1].dimension, q[2].dimension>> \in permute}}

\* staticum.m: the name-keyed map of the catalog
CatalogUnits == MetaSet \cup CompoundSet

IsUnit(name) == \E u \in CatalogUnits : Name(u) = name
GetByName(name) == CHOOSE u \in CatalogUnits : Name(u) = name

(***************************************************************************)
(* Measure values.  um is TRUE when the value carries the unit manager     *)
(* StdUm and FALSE when the field is the nil interface.                    *)
(***************************************************************************)
MV(value, unit, unitless, um) ==
  [um |-> um, unit |-> unit, unitless |-> unitless, value |-> value]

NoMV == [nil |-> TRUE]

makeUnitlessMeasureValue(d) == MV(d, NoUnit, TRUE, TRUE)
makeMeasureValue(d, unit) == MV(d, unit, FALSE, TRUE)

\* toSi keeping the raw value under the SI name
toSi_raw(mv, mvUnit) == MV(mv.value, SiName(mvUnit), FALSE, mv.um)

toSi(mv, mvUnit) ==
  MV(DAdd(DMul(mv.value, SiFactor(mvUnit)), SiOffset(mvUnit)),
     SiName(mvUnit), FALSE, mv.um)

\* the outcome of a negotiation: st is "ok", "fail" (ok = false) or
\* "panic" (a method call through a nil unit manager)
Stat(unitless, lmv, rmv, targetUnit) ==
  [st |-> "ok", unitless |-> unitless, lmv |-> lmv, rmv |-> rmv,
   targetUnit |-> targetUnit]
StatFail == [st |-> "fail"]
StatPanic == [st |-> "panic"]

\* parseAdd taking a unitless operand as a coefficient, as parseMul does
parseAdd_coefficient(mv, other) ==
  IF mv.unitless /\ ~other.unitless THEN Stat(FALSE, other, mv, other.unit)
  ELSE IF ~mv.unitless /\ other.unitless THEN Stat(FALSE, mv, other, mv.unit)
  ELSE IF mv.unitless /\ other.unitless THEN Stat(TRUE, mv, other, NoUnit)
  ELSE IF ~mv.um THEN StatPanic
  ELSE IF ~IsUnit(mv.unit) THEN StatFail
  ELSE IF ~other.um THEN StatPanic
  ELSE IF ~IsUnit(other.unit) THEN StatFail
  ELSE LET u == GetByName(mv.unit)
           ou == GetByName(other.unit)
       IN  IF Dimension(u) # Dimension(ou) THEN StatFail
           ELSE LET lmv == toSi(mv, u)
                    rmv == toSi(other, ou)
                IN  Stat(FALSE, lmv, rmv, lmv.unit)

parseAdd(mv, other) ==
  IF mv.unitless /\ ~other.unitless THEN StatFail
  ELSE IF ~mv.unitless /\ other.unitless THEN StatFail
  ELSE IF mv.unitless /\ other.unitless THEN Stat(TRUE, mv, other, NoUnit)
  ELSE IF ~mv.um THEN StatPanic
  ELSE IF ~IsUnit(mv.unit) THEN StatFail
  ELSE IF ~other.um THEN StatPanic
  ELSE IF ~IsUnit(other.unit) THEN StatFail
  ELSE LET u == GetByName(mv.unit)
           ou == GetByName(other.unit)
       IN  IF Dimension(u) # Dimension(ou) THEN StatFail
           ELSE LET lmv == toSi(mv, u)
                    rmv == toSi(other, ou)
                IN  Stat(FALSE, lmv, rmv, lmv.unit)

parseSub(mv, other) == parseAdd(mv, other)

\* the both-unit-measured part of parseMul and of parseDiv up to the
\* mixed meta/compound case
\* parseSameShape without the comparison of dimensions
parseSameShape_anyDimension(mv, other, u, ou) ==
  Stat(FALSE, toSi(mv, u), toSi(other, ou), SiName(u))

parseSameShape(mv, other, u, ou) ==
  IF IsMeta(u) /\ IsMeta(ou)
  THEN IF Dimension(u) # Dimension(ou) THEN StatFail
       ELSE LET lmv == toSi(mv, u)
                rmv == toSi(other, ou)
            IN  Stat(FALSE, lmv, rmv, lmv.unit)
  ELSE IF u.Numerator.dimension # ou.Numerator.dimension THEN StatFail
  ELSE IF u.Denominator.dimension # ou.Denominator.dimension THEN StatFail
  ELSE LET lmv == toSi(mv, u)
           rmv == toSi(other, ou)
       IN  Stat(FALSE, lmv, rmv, lmv.unit)

\* parseMul refusing a unitless operand beside a unit-bearing one, as
\* parseAdd does
parseMul_strict(mv, other) ==
  IF mv.unitless /\ other.unitless THEN Stat(TRUE, mv, other, NoUnit)
  ELSE IF mv.unitless # other.unitless THEN StatFail
  ELSE IF ~mv.um THEN StatPanic
  ELSE IF ~IsUnit(mv.unit) THEN StatFail
  ELSE IF ~IsUnit(other.unit) THEN StatFail
  ELSE LET u == GetByName(mv.unit)
           ou == GetByName(other.unit)
       IN  IF IsMeta(u) = IsMeta(ou) THEN parseSameShape(mv, other, u, ou)
           ELSE LET mu == IF IsMeta(u) THEN u ELSE ou
                    cu == IF IsMeta(u) THEN ou ELSE u
                    lmv == IF IsMeta(u) THEN mv ELSE other
                    rmv == IF IsMeta(u) THEN other ELSE mv
                IN  IF cu.Denominator.dimension # mu.dimension THEN StatFail
                    ELSE Stat(FALSE, toSi(lmv, mu), toSi(rmv, cu),
                              cu.Numerator.si)

\* parseMul without the meta-by-compound case, as parseDiv is
parseMul_noMixed(mv, other) ==
  IF mv.unitless /\ other.unitless THEN Stat(TRUE, mv, other, NoUnit)
  ELSE IF mv.unitless /\ ~other.unitless
  THEN Stat(FALSE, other, mv, other.unit)
  ELSE IF ~mv.unitless /\ other.unitless
  THEN Stat(FALSE, mv, other, mv.unit)
  ELSE IF ~mv.um THEN StatPanic
  ELSE IF ~IsUnit(mv.unit) THEN StatFail
  ELSE IF ~IsUnit(other.unit) THEN StatFail
  ELSE IF IsMeta(GetByName(mv.unit)) = IsMeta(GetByName(other.unit))
  THEN parseSameShape(mv, other, GetByName(mv.unit), GetByName(other.unit))
  ELSE StatFail

parseMul(mv, other) ==
  IF mv.unitless /\ other.unitless THEN Stat(TRUE, mv, other, NoUnit)
  ELSE IF mv.unitless /\ ~other.unitless
  THEN Stat(FALSE, other, mv, other.unit)
  ELSE IF ~mv.unitless /\ other.unitless
  THEN Stat(FALSE, mv, other, mv.unit)
  ELSE IF ~mv.um THEN StatPanic
  ELSE IF ~IsUnit(mv.unit) THEN StatFail
  ELSE IF ~IsUnit(other.unit) THEN StatFail
  ELSE LET u == GetByName(mv.unit)
           ou == GetByName(other.unit)
       IN  IF IsMeta(u) = IsMeta(ou) THEN parseSameShape(mv, other, u, ou)
           ELSE LET mu == IF IsMeta(u) THEN u ELSE ou
                    cu == IF IsMeta(u) THEN ou ELSE u
                    lmv == IF IsMeta(u) THEN mv ELSE other
                    rmv == IF IsMeta(u) THEN other ELSE mv
                IN  IF cu.Denominator.dimension # mu.dimension THEN StatFail
                    ELSE Stat(FALSE, toSi(lmv, mu), toSi(rmv, cu),
                              cu.Numerator.si)

\* parseDiv accepting a meta unit beside a compound one
parseDiv_mixed(mv, other) ==
  IF mv.unitless /\ other.unitless THEN Stat(TRUE, mv, other, NoUnit)
  ELSE IF mv.unitless /\ ~other.unitless
  THEN Stat(FALSE, other, mv, other.unit)
  ELSE IF ~mv.unitless /\ other.unitless
  THEN Stat(FALSE, mv, other, mv.unit)
  ELSE IF ~mv.um THEN StatPanic
  ELSE IF ~IsUnit(mv.unit) THEN StatFail
  ELSE IF ~IsUnit(other.unit) THEN StatFail
  ELSE IF IsMeta(GetByName(mv.unit)) = IsMeta(GetByName(other.unit))
  THEN parseSameShape(mv, other, GetByName(mv.unit), GetByName(other.unit))
  ELSE Stat(FALSE, toSi(mv, GetByName(mv.unit)),
            toSi(other, GetByName(other.unit)), SiName(GetByName(mv.unit)))

parseDiv(mv, other) ==
  IF mv.unitless /\ other.unitless THEN Stat(TRUE, mv, other, NoUnit)
  ELSE IF mv.unitless /\ ~other.unitless
  THEN Stat(FALSE, other, mv, other.unit)
  ELSE IF ~mv.unitless /\ other.unitless
  THEN Stat(FALSE, mv, other, mv.unit)
  ELSE IF ~mv.um THEN StatPanic
  ELSE IF ~IsUnit(mv.unit) THEN StatFail
  ELSE IF ~IsUnit(other.unit) THEN StatFail
  ELSE LET u == GetByName(mv.unit)
           ou == GetByName(other.unit)
       IN  IF IsMeta(u) = IsMeta(ou) THEN parseSameShape(mv, other, u, ou)
           ELSE StatFail

\* the outcome of an operation: st is "ok" (mv is the value), "err" (the
\* "(u)op(v) is unsupported" error) or "panic"
OpOk(mv) == [st |-> "ok", mv |-> mv]
OpErr == [st |-> "err", mv |-> NoMV]
OpPanic == [st |-> "panic", mv |-> NoMV]

\* the value an operation builds from a negotiated pair
\* AddValue leaving the flag unitless of the result unset
AddValue_unitlessDropped(mv, mvos) ==
  IF mvos.st = "panic" THEN OpPanic
  ELSE IF mvos.st = "fail" THEN OpErr
  ELSE OpOk(MV(DAdd(mvos.lmv.value, mvos.rmv.value), mvos.targetUnit,
               FALSE, mv.um))

AddValue(mv, mvos) ==
  IF mvos.st = "panic" THEN OpPanic
  ELSE IF mvos.st = "fail" THEN OpErr
  ELSE OpOk(MV(DAdd(mvos.lmv.value, mvos.rmv.value), mvos.targetUnit,
               mvos.unitless, mv.um))

SubValue(mv, mvos) ==
  IF mvos.st = "panic" THEN OpPanic
  ELSE IF mvos.st = "fail" THEN OpErr
  ELSE OpOk(MV(DSub(mvos.lmv.value, mvos.rmv.value), mvos.targetUnit,
               mvos.unitless, mv.um))

MulValue(mv, mvos) ==
  IF mvos.st = "panic" THEN OpPanic
  ELSE IF mvos.st = "fail" THEN OpErr
  ELSE OpOk(MV(DMul(mvos.lmv.value, mvos.rmv.value), mvos.targetUnit,
               mvos.unitless, mv.um))

DivValue(mv, mvos) ==
  IF mvos.st = "panic" THEN OpPanic
  ELSE IF mvos.st = "fail" THEN OpErr
  ELSE IF IsZero(mvos.rmv.value) THEN OpPanic
  ELSE OpOk(MV(DDiv(mvos.lmv.value, mvos.rmv.value), mvos.targetUnit,
               mvos.unitless, mv.um))

Add(mv, other) == AddValue(mv, parseAdd(mv, other))
Sub(mv, other) == SubValue(mv, parseSub(mv, other))
Mul(mv, other) == MulValue(mv, parseMul(mv, other))
Div(mv, other) == DivValue(mv, parseDiv(mv, other))

Neg(mv) == MV(DNeg(mv.value), NoUnit, FALSE, FALSE)

\* To without the division by the factor of the target unit
To_undivided(mv, targetUnitName) ==
  IF mv.unit = targetUnitName
  THEN OpOk(MV(mv.value, mv.unit, mv.unitless, mv.um))
  ELSE IF ~mv.um THEN OpPanic
  ELSE IF ~IsUnit(targetUnitName) THEN OpErr
  ELSE IF ~IsUnit(mv.unit) THEN OpErr
  ELSE LET tunit == GetByName(targetUnitName)
           si == toSi(mv, GetByName(mv.unit))
       IN  IF si.unit = Name(tunit) THEN OpOk(si)
           ELSE OpOk(MV(DSub(si.value, SiOffset(tunit)),
                        Name(tunit), FALSE, mv.um))

To(mv, targetUnitName) ==
  IF mv.unit = targetUnitName
  THEN OpOk(MV(mv.value, mv.unit, mv.unitless, mv.um))
  ELSE IF ~mv.um THEN OpPanic
  ELSE IF ~IsUnit(targetUnitName) THEN OpErr
  ELSE IF ~IsUnit(mv.unit) THEN OpErr
  ELSE LET tunit == GetByName(targetUnitName)
           si == toSi(mv, GetByName(mv.unit))
       IN  IF si.unit = Name(tunit) THEN OpOk(si)
           ELSE IF IsZero(SiFactor(tunit)) THEN OpPanic
           ELSE OpOk(MV(DSub(DDiv(si.value, SiFactor(tunit)),
                             SiOffset(tunit)),
                        Name(tunit), FALSE, mv.um))

(***************************************************************************)
(* Tokens, as the lexer hands them to the parser.  A NUM carries the       *)
(* decimal its digits denote, a UNIT the unit name with the brackets       *)
(* stripped, a LITERALMV the tokens of its inner text; a punctuation       *)
(* token is the character itself.                                          *)
(***************************************************************************)
Tok(t) == [t |-> t, s |-> "", v |-> Zero, u |-> NoUnit, inner |-> << >>]
IDENT(s) == [Tok("IDENT") EXCEPT !.s = s]
NUM(n, d) == [Tok("NUM") EXCEPT !.v = Rat(n, d)]
UNIT(u) == [Tok("UNIT") EXCEPT !.u = u]
LITERALSTR(s) == [Tok("LITERALSTR") EXCEPT !.s = s]
LITERALMV(inner) == [Tok("LITERALMV") EXCEPT !.inner = inner]

NewMeasureValueFromString(lvals) ==
  IF Len(lvals) # 2 \/ (lvals[1].t # "NUM" /\ lvals[2].t # "UNIT")
  THEN [ok |-> FALSE, mv |-> NoMV]
  ELSE [ok |-> TRUE, mv |-> MV(lvals[1].v, lvals[2].u, FALSE, TRUE)]

(***************************************************************************)
(* The lexer, on strings of characters.                                    *)
(***************************************************************************)
Digits == <<"0", "1", "2", "3", "4", "5", "6", "7", "8", "9">>
isDigit(c) == \E i \in DOMAIN Digits : Digits[i] = c
isLetter(c) ==
  c \in
  {"a", "b", "c", "d", "e", "f", "g", "h", "i", "j", "k", "l", "m",
   "n", "o", "p", "q", "r", "s", "t", "u", "v", "w", "x", "y", "z",
   "A", "B", "C", "D", "E", "F", "G", "H", "I", "J", "K", "L", "M",
   "N", "O", "P", "Q", "R", "S", "T", "U", "V", "W", "X", "Y", "Z"}
isSpace(c) == c \in {" ", "\t", "\n"}
Quote == "\""

\* the rest of s from its i-th character on
From(s, i) == SubSeq(s, i, Len(s))

\* a separator: white space, one of + - * / ( ) , ; = or the end of the
\* string
startWithSeparator(b) ==
  \/ b = << >>
  \/ isSpace(b[1])
  \/ b[1] \in {"+", "-", "*", "/", "(", ")", ",", ";", "="}

MaybeAmbiguousUnitName(name) ==
  IF \E i \in 2..10 : Digits[i] = name[1]
  THEN [s |-> <<"(">> \o name \o <<")">>, ok |-> TRUE]
  ELSE [s |-> name, ok |-> FALSE]

\* the names appended by newStaticUintManager, before the sort
appended ==
  {Name(u) : u \in CatalogUnits}
  \cup {MaybeAmbiguousUnitName(Name(u)).s : u \in CatalogUnits}

\* sort.Slice by increasing length
RECURSIVE sortByLength_increasing(_)
sortByLength_increasing(S) ==
  IF S = {} THEN << >>
  ELSE LET x == CHOOSE y \in S : \A z \in S : Len(y) <= Len(z)
       IN  <<x>> \o sortByLength_increasing(S \ {x})

\* sort.Slice by decreasing length; the order of names of one length, which
\* the sort leaves open, has no effect on Peek
RECURSIVE sortByLength(_)
sortByLength(S) ==
  IF S = {} THEN << >>
  ELSE LET x == CHOOSE y \in S : \A z \in S : Len(z) <= Len(y)
       IN  <<x>> \o sortByLength(S \ {x})

\* staticum.names and staticum.ulens
names == sortByLength(appended)
ulens == [i \in DOMAIN names |-> Len(names[i])]

\* the loop of Peek from the i-th name on
RECURSIVE PeekFrom(_, _)
PeekFrom(s, i) ==
  IF i > Len(names) THEN [n |-> 0, ok |-> FALSE]
  ELSE IF Len(s) < ulens[i] THEN PeekFrom(s, i + 1)
  ELSE IF SubSeq(s, 1, ulens[i]) = names[i]
          /\ startWithSeparator(From(s, ulens[i] + 1))
  THEN [n |-> ulens[i], ok |-> TRUE]
  ELSE PeekFrom(s, i + 1)

Peek(s) == PeekFrom(s, 1)

\* the number of leading characters of s, from the i-th on, that are digits
RECURSIVE digitsAt(_, _)
digitsAt(s, i) ==
  IF i <= Len(s) /\ isDigit(s[i]) THEN 1 + digitsAt(s, i + 1) ELSE 0

\* ... that are letters, digits or '_'
RECURSIVE wordAt(_, _)
wordAt(s, i) ==
  IF i <= Len(s) /\ (isLetter(s[i]) \/ isDigit(s[i]) \/ s[i] = "_")
  THEN 1 + wordAt(s, i + 1) ELSE 0

\* ^[_a-zA-Z][_a-zA-Z0-9]* : the length of the match, 0 without one
matchIDENT(s) ==
  IF s # << >> /\ (isLetter(s[1]) \/ s[1] = "_") THEN wordAt(s, 1) ELSE 0

\* the length of ([eE][-+]?[0-9]+)? at the i-th character
exponentAt(s, i) ==
  IF i <= Len(s) /\ s[i] \in {"e", "E"}
  THEN IF i + 1 <= Len(s) /\ s[i + 1] \in {"-", "+"}
       THEN IF digitsAt(s, i + 2) > 0 THEN 2 + digitsAt(s, i + 2) ELSE 0
       ELSE IF digitsAt(s, i + 1) > 0 THEN 1 + digitsAt(s, i + 1) ELSE 0
  ELSE 0

\* the length of [0-9]*\.?[0-9]+ at the head of s, d being the leading digits
mantissa(s, d) ==
  IF d + 1 <= Len(s) /\ s[d + 1] = "." /\ digitsAt(s, d + 2) > 0
  THEN d + 1 + digitsAt(s, d + 2)
  ELSE d

withExponent(s, m) == IF m = 0 THEN 0 ELSE m + exponentAt(s, m + 1)

\* ^[0-9]*\.?[0-9]+([eE][-+]?[0-9]+)?
matchNUM(s) == withExponent(s, mantissa(s, digitsAt(s, 1)))

\* the index of the first quote of s from the i-th character on, 0 if none
RECURSIVE quoteAt(_, _)
quoteAt(s, i) ==
  IF i > Len(s) THEN 0
  ELSE IF s[i] = Quote THEN i
  ELSE quoteAt(s, i + 1)

\* ^"[^"]*"
matchLITERALSTR(s) ==
  IF s # << >> /\ s[1] = Quote THEN quoteAt(s, 2) ELSE 0

\* decimal.NewFromString on the text of a token: the decimal the text of a
\* number denotes, and the zero Decimal (with an error) for any other text
RECURSIVE natOf(_, _, _)
natOf(s, i, acc) ==
  IF i > Len(s) THEN acc
  ELSE IF ~isDigit(s[i]) THEN natOf(s, i + 1, acc)
  ELSE natOf(s, i + 1,
             10 * acc + (CHOOSE k \in 0..9 : Digits[k + 1] = s[i]))

RECURSIVE pow10(_)
pow10(k) == IF k = 0 THEN 1 ELSE 10 * pow10(k - 1)

\* n * 10^(e - frac), e being negative when neg
scaled(n, frac, e, neg) ==
  IF neg THEN Rat(n, pow10(frac + e))
  ELSE IF e >= frac THEN Rat(n * pow10(e - frac), 1)
  ELSE Rat(n, pow10(frac - e))

\* the decimal of a number of d leading digits and mantissa length m
decimalOf(s, d, m) ==
  scaled(natOf(SubSeq(s, 1, m), 1, 0),
         IF m > d THEN m - d - 1 ELSE 0,
         natOf(From(s, m + 1), 1, 0),
         \E i \in m + 1..Len(s) : s[i] = "-")

NewFromString(s) ==
  IF s # << >> /\ matchNUM(s) = Len(s)
  THEN decimalOf(s, digitsAt(s, 1), mantissa(s, digitsAt(s, 1)))
  ELSE Zero

\* a token as Lex leaves it in lval: the token and its text
Sym(token, str) == [token |-> token, str |-> str]

\* the token in the shape the parser reads
symTok(sym) ==
  [Tok(sym.token) EXCEPT !.v = NewFromString(sym.str), !.u = sym.str]

\* what Lex returns: ret, the token or the character; lval; and the input
\* that is left
lexed(ret, token, str, rest) ==
  [ret |-> ret, lval |-> Sym(token, str), rest |-> rest]

RECURSIVE skipSpaces(_)
skipSpaces(in) ==
  IF in # << >> /\ isSpace(in[1]) THEN skipSpaces(Tail(in)) ELSE in

RECURSIVE Lex(_)
RECURSIVE lexAll(_, _)

\* the loop over Lex of NewMeasureValueFromString, r being the token read
lexNext(lvals, r) ==
  IF r.ret = "eof" THEN lvals
  ELSE lexAll(r.rest, IF r.lval.token # "invalid" THEN Append(lvals, r.lval)
                      ELSE lvals)

lexAll(in, lvals) == lexNext(lvals, Lex(in))

\* the tokens in the shape the parser reads
symToks(lvals) == [i \in DOMAIN lvals |-> symTok(lvals[i])]

\* NewMeasureValueFromString(s), s being the text
NewMeasureValueFromChars(s) ==
  NewMeasureValueFromString(symToks(lexAll(s, << >>)))

lexLiteralStr(s) ==
  IF IsUnit(s) THEN "UNIT"
  ELSE IF NewMeasureValueFromChars(s).ok THEN "LITERALMV"
  ELSE "LITERALSTR"

\* the token of a unit of n characters, brackets removed
lexUnit(in, str, n) ==
  lexed("UNIT", "UNIT",
        IF str[1] = "(" THEN SubSeq(str, 2, Len(str) - 1) ELSE str,
        From(in, n + 1))

\* the token a quoted literal of n characters becomes
lexQuoted(token, str, rest) == lexed(token, token, str, rest)

\* the rules in their order, then the next character
lexRules(in, ident, num, literal) ==
  IF ident > 0
  THEN lexed("IDENT", "IDENT", SubSeq(in, 1, ident), From(in, ident + 1))
  ELSE IF num > 0
  THEN lexed("NUM", "NUM", SubSeq(in, 1, num), From(in, num + 1))
  ELSE IF literal > 0
  THEN lexQuoted(lexLiteralStr(SubSeq(in, 2, literal - 1)),
                 SubSeq(in, 2, literal - 1), From(in, literal + 1))
  ELSE lexed(in[1], "invalid", << >>, Tail(in))

lexPeeked(in, p) ==
  IF p.ok THEN lexUnit(in, SubSeq(in, 1, p.n), p.n)
  ELSE lexRules(in, matchIDENT(in), matchNUM(in), matchLITERALSTR(in))

lexSkipped(in) ==
  IF in = << >> THEN lexed("eof", "eof", << >>, << >>)
  ELSE lexPeeked(in, Peek(in))

Lex(in) == lexSkipped(skipSpaces(in))

(***************************************************************************)
(* The syntax tree.                                                        *)
(***************************************************************************)
MVNode(mv) == [type |-> "MV", mv |-> mv]
makeLiteralString(s) == [type |-> "LiteralStr", s |-> s]
makeVariable(name) == [type |-> "Var", Name |-> name]
makeBinaryExpr(lhs, rhs, op) ==
  [type |-> "BinaryExpr", Op |-> op, lhs |-> lhs, rhs |-> rhs]
makeUnaryExpr(expr) == [type |-> "UnaryExpr", expr |-> expr]
makeFuncCall(fn, args) == [type |-> "FuncCall", fn |-> fn, args |-> args]
makeAssignment(variable, node) ==
  [type |-> "Assignment", variable |-> variable, node |-> node]
NoNode == [type |-> "nil"]

(***************************************************************************)
(* The grammar of a statement.  The generated LALR parser is written as    *)
(* the equivalent descent: '*' and '/' bind tighter than '+' and '-', all  *)
(* four associate to the left, and unary '-' reduces before any operator   *)
(* that follows it (%prec '*').  A result is [ok, node, pos], pos being    *)
(* the index of the first token not consumed.                              *)
(***************************************************************************)
PFail == [ok |-> FALSE, node |-> NoNode, pos |-> 0]
POk(node, pos) == [ok |-> TRUE, node |-> node, pos |-> pos]
At(toks, i) == IF i <= Len(toks) THEN toks[i].t ELSE "EOF"

\* a_expr: NUM UNIT | LITERALMV | NUM | IDENT
a_primary(toks, i) ==
  IF At(toks, i) = "NUM"
  THEN IF At(toks, i + 1) = "UNIT"
       THEN POk(MVNode(makeMeasureValue(toks[i].v, toks[i + 1].u)), i + 2)
       ELSE POk(MVNode(makeUnitlessMeasureValue(toks[i].v)), i + 1)
  ELSE IF At(toks, i) = "LITERALMV"
  THEN LET r == NewMeasureValueFromString(toks[i].inner)
       IN  IF r.ok THEN POk(MVNode(r.mv), i + 1) ELSE PFail
  ELSE IF At(toks, i) = "IDENT" THEN POk(makeVariable(toks[i].s), i + 1)
  ELSE PFail

\* the node a production reduces to, given the result for its last symbol
ReduceUnary(r) ==
  IF r.ok THEN POk(makeUnaryExpr(r.node), r.pos) ELSE PFail
ReduceBinary(l, r, op) ==
  IF r.ok THEN POk(makeBinaryExpr(l.node, r.node, op), r.pos) ELSE PFail

\* a_expr: '-' a_expr %prec '*'
RECURSIVE a_unary(_, _)
a_unary(toks, i) ==
  IF At(toks, i) = "-" THEN ReduceUnary(a_unary(toks, i + 1))
  ELSE a_primary(toks, i)

\* a_expr: a_expr '*' a_expr | a_expr '/' a_expr, l being the result for
\* the left operand
RECURSIVE a_term_rest(_, _)
a_term_rest(toks, l) ==
  IF ~l.ok THEN PFail
  ELSE IF At(toks, l.pos) \in {"*", "/"}
  THEN a_term_rest(toks,
         ReduceBinary(l, a_unary(toks, l.pos + 1), toks[l.pos].t))
  ELSE l

a_term(toks, i) == a_term_rest(toks, a_unary(toks, i))

\* a_expr: a_expr '+' a_expr | a_expr '-' a_expr
RECURSIVE a_expr_rest(_, _)
a_expr_rest(toks, l) ==
  IF ~l.ok THEN PFail
  ELSE IF At(toks, l.pos) \in {"+", "-"}
  THEN a_expr_rest(toks,
         ReduceBinary(l, a_term(toks, l.pos + 1), toks[l.pos].t))
  ELSE l

a_expr(toks, i) == a_expr_rest(toks, a_term(toks, i))

\* func_arg_expr: IDENT | LITERALMV | LITERALSTR | a_expr
func_arg_expr(toks, i) ==
  IF At(toks, i) = "LITERALSTR"
  THEN POk(makeLiteralString(toks[i].s), i + 1)
  ELSE a_expr(toks, i)

\* func_arg_list: func_arg_expr | func_arg_list ',' func_arg_expr, r being
\* the result for the next func_arg_expr
RECURSIVE func_arg_list(_, _, _)
func_arg_list(toks, elements, r) ==
  IF ~r.ok THEN PFail
  ELSE IF At(toks, r.pos) = ","
  THEN func_arg_list(toks, Append(elements, r.node),
                     func_arg_expr(toks, r.pos + 1))
  ELSE POk(Append(elements, r.node), r.pos)

ReduceFuncCall(toks, fn, r) ==
  IF r.ok /\ At(toks, r.pos) = ")"
  THEN POk(makeFuncCall(fn, r.node), r.pos + 1)
  ELSE PFail

\* func_call: func_name '(' ')' | func_name '(' func_arg_list ')'
func_call(toks, i) ==
  IF At(toks, i) # "IDENT" \/ At(toks, i + 1) # "(" THEN PFail
  ELSE IF At(toks, i + 2) = ")"
  THEN POk(makeFuncCall(toks[i].s, << >>), i + 3)
  ELSE ReduceFuncCall(toks, toks[i].s,
         func_arg_list(toks, << >>, func_arg_expr(toks, i + 2)))

ReduceAssignment(variable, r) ==
  IF r.ok THEN POk(makeAssignment(variable, r.node), r.pos) ELSE PFail

\* assignment: IDENT '=' a_expr | IDENT '=' func_call
assignment(toks, i) ==
  IF At(toks, i) # "IDENT" \/ At(toks, i + 1) # "=" THEN PFail
  ELSE ReduceAssignment(toks[i].s,
         IF At(toks, i + 2) = "IDENT" /\ At(toks, i + 3) = "("
         THEN func_call(toks, i + 2)
         ELSE a_expr(toks, i + 2))

\* func_call or assignment, as the second token tells
call_or_assignment(toks) ==
  IF At(toks, 2) = "(" THEN func_call(toks, 1) ELSE assignment(toks, 1)

\* statement with an optional terminator
statement_optional(toks, r) ==
  IF Len(toks) = 0 THEN POk(NoNode, 1)
  ELSE IF r.ok /\ (r.pos > Len(toks)
                   \/ (At(toks, r.pos) = ";" /\ r.pos = Len(toks)))
  THEN POk(r.node, r.pos + 1)
  ELSE PFail

\* statement: /* empty */ | func_call ';' | assignment ';', r being the
\* result for the call or assignment; ok = FALSE is the syntax error,
\* node = NoNode the empty statement
statement(toks, r) ==
  IF Len(toks) = 0 THEN POk(NoNode, 1)
  ELSE IF r.ok /\ At(toks, r.pos) = ";" /\ r.pos = Len(toks)
  THEN POk(r.node, r.pos + 1)
  ELSE PFail

parseOneExpr(expr) == statement(expr, call_or_assignment(expr))

(***************************************************************************)
(* Errors.  kind names the error, name the function or variable it is      *)
(* about; NoErr is the nil error.                                          *)
(***************************************************************************)
Err(kind, name) == [kind |-> kind, name |-> name]
NoErr == Err("nil", "")

(***************************************************************************)
(* Host functions handed to NewInterpreter.  params lists the parameter    *)
(* types ("*MeasureValue", "string"; variadic = TRUE is ...interface{}),   *)
(* returnTypeNames the results, body what the function does.               *)
(***************************************************************************)
Func(funcName, params, variadic, returnTypeNames, body) ==
  [funcName |-> funcName, params |-> params, variadic |-> variadic,
   returnTypeNames |-> returnTypeNames, body |-> body]

\* fInt(a *MeasureValue) *MeasureValue { return a }
fInt == Func("fInt", <<"*MeasureValue">>, FALSE, <<"*MeasureValue">>, "first")
\* fAny(args ...interface{}) (*MeasureValue, error): an error without
\* arguments, 1kg otherwise
fAny == Func("fAny", << >>, TRUE, <<"*MeasureValue", "error">>, "any")
\* a function without results
fVoid == Func("fVoid", << >>, FALSE, << >>, "void")
\* a function that panics
fPanic == Func("fPanic", << >>, FALSE, <<"*MeasureValue">>, "panic")

UserFuncs == <<fInt, fAny, fVoid, fPanic>>

\* registerKFuncs
kfuncs == {"print"}

\* errorIndexes of getFuncInfo
errorIndexes(f) ==
  {i \in DOMAIN f.returnTypeNames : f.returnTypeNames[i] = "error"}

\* registerUFunc without the test of the kernel table
registerUFunc_noKernelTest(funcs, fi) ==
  IF \E g \in funcs : g.funcName = fi.funcName
  THEN Err("ReregisteredFunction", fi.funcName)
  ELSE IF Len(fi.returnTypeNames) = 1 /\ fi.returnTypeNames[1] # "*MeasureValue"
  THEN Err("UnsupportedFunctionSignature", fi.funcName)
  ELSE IF Len(fi.returnTypeNames) = 2
          /\ (fi.returnTypeNames[1] # "*MeasureValue"
              \/ fi.returnTypeNames[2] # "error")
  THEN Err("UnsupportedFunctionSignature", fi.funcName)
  ELSE NoErr

\* registerUFunc: the error of registering fi into the table funcs
registerUFunc(funcs, fi) ==
  IF fi.funcName \in kfuncs THEN Err("OverridesKernelFunction", fi.funcName)
  ELSE IF \E g \in funcs : g.funcName = fi.funcName
  THEN Err("ReregisteredFunction", fi.funcName)
  ELSE IF Len(fi.returnTypeNames) = 1 /\ fi.returnTypeNames[1] # "*MeasureValue"
  THEN Err("UnsupportedFunctionSignature", fi.funcName)
  ELSE IF Len(fi.returnTypeNames) = 2
          /\ (fi.returnTypeNames[1] # "*MeasureValue"
              \/ fi.returnTypeNames[2] # "error")
  THEN Err("UnsupportedFunctionSignature", fi.funcName)
  ELSE NoErr

\* NewInterpreter's registration loop: [err, funcs]
RECURSIVE registerAll(_, _, _)
registerAll(funcs, fns, i) ==
  IF i > Len(fns) THEN [err |-> NoErr, funcs |-> funcs]
  ELSE LET e == registerUFunc(funcs, fns[i])
       IN  IF e # NoErr THEN [err |-> e, funcs |-> {}]
           ELSE registerAll(funcs \cup {fns[i]}, fns, i + 1)

funcs == registerAll({}, UserFuncs, 1).funcs

\* what NewInterpreter returns: no Interpreter and the error, or the
\* Interpreter with its two function tables
constructed(r) ==
  IF r.err # NoErr
  THEN [nil |-> TRUE, err |-> r.err, kfuncs |-> {}, funcs |-> {}]
  ELSE [nil |-> FALSE, err |-> NoErr, kfuncs |-> kfuncs, funcs |-> r.funcs]

\* the table in which visitFuncCall finds a name
resolve(kf, uf, name) ==
  IF name \in kf THEN "kernel"
  ELSE IF \E f \in uf : f.funcName = name THEN "user"
  ELSE "unknown"

(***************************************************************************)
(* Evaluation of arithmetic expressions.  An outcome is [st, mv, err]:     *)
(* st = "ok" with the value, "err" with the error, or "panic".             *)
(***************************************************************************)
EvalOk(mv) == [st |-> "ok", mv |-> mv, err |-> NoErr]
EvalErr(e) == [st |-> "err", mv |-> NoMV, err |-> e]
EvalPanic == [st |-> "panic", mv |-> NoMV, err |-> NoErr]

\* the switch on a.Op of visitBinaryExpr
dispatchOp(op, lhs, rhs) ==
  IF op = "+" THEN Add(lhs, rhs)
  ELSE IF op = "-" THEN Sub(lhs, rhs)
  ELSE IF op = "*" THEN Mul(lhs, rhs)
  ELSE Sub(lhs, rhs)

\* the result of the operation, as visitBinaryExpr returns it
binaryResult(op, r) ==
  IF r.st = "panic" THEN EvalPanic
  ELSE IF r.st = "err" THEN EvalErr(Err("IncompatibleUnits", op))
  ELSE EvalOk(r.mv)

binaryOperands(op, lhs, rhs) ==
  IF lhs.st # "ok" THEN lhs
  ELSE IF rhs.st # "ok" THEN rhs
  ELSE binaryResult(op, dispatchOp(op, lhs.mv, rhs.mv))

unaryOperand(ans) == IF ans.st # "ok" THEN ans ELSE EvalOk(Neg(ans.mv))

RECURSIVE visitAExpr(_, _)
visitBinaryExpr(env, a) ==
  binaryOperands(a.Op, visitAExpr(env, a.lhs), visitAExpr(env, a.rhs))

visitUnaryExpr(env, a) == unaryOperand(visitAExpr(env, a.expr))

visitAExpr(env, a) ==
  IF a.type = "MV" THEN EvalOk(a.mv)
  ELSE IF a.type = "Var"
  THEN IF a.Name \in DOMAIN env THEN EvalOk(env[a.Name])
       ELSE EvalErr(Err("UndefinedVariable", a.Name))
  ELSE IF a.type = "BinaryExpr" THEN visitBinaryExpr(env, a)
  ELSE IF a.type = "UnaryExpr" THEN visitUnaryExpr(env, a)
  ELSE EvalErr(Err("UnsupportedNode", a.type))

(***************************************************************************)
(* Arguments of a call: a Go string, the variable node itself (kernel      *)
(* calls), a measure value, or the nil *MeasureValue of an unbound         *)
(* variable (user calls).                                                  *)
(***************************************************************************)
ArgStr(s) == [kind |-> "str", s |-> s]
ArgVar(name) == [kind |-> "var", Name |-> name]
ArgMV(mv) == [kind |-> "mv", mv |-> mv]
ArgNilMV == [kind |-> "nilmv"]

ArgOk(arg) == [st |-> "ok", arg |-> arg, err |-> NoErr]
ArgFail(r) == [st |-> r.st, arg |-> ArgNilMV, err |-> r.err]

\* the argument an evaluated expression becomes
exprArg(r) == IF r.st = "ok" THEN ArgOk(ArgMV(r.mv)) ELSE ArgFail(r)

visitKFuncArg(env, a) ==
  IF a.type = "LiteralStr" THEN ArgOk(ArgStr(a.s))
  ELSE IF a.type = "Var" THEN ArgOk(ArgVar(a.Name))
  ELSE exprArg(visitAExpr(env, a))

visitFuncArg(env, a) ==
  IF a.type = "LiteralStr" THEN ArgOk(ArgStr(a.s))
  ELSE IF a.type = "Var"
  THEN IF a.Name \in DOMAIN env THEN ArgOk(ArgMV(env[a.Name]))
       ELSE ArgOk(ArgNilMV)
  ELSE exprArg(visitAExpr(env, a))

\* the argument loops of visitFuncCall: [st, args, err], stopping at the
\* first argument that fails; r is the outcome for the i-th argument
RECURSIVE visitArgs(_, _, _, _, _)
nextArg(env, argnodes, kernel, i, args, r) ==
  IF r.st # "ok" THEN [st |-> r.st, args |-> << >>, err |-> r.err]
  ELSE visitArgs(env, argnodes, kernel, i + 1, Append(args, r.arg))

visitArgs(env, argnodes, kernel, i, args) ==
  IF i > Len(argnodes) THEN [st |-> "ok", args |-> args, err |-> NoErr]
  ELSE nextArg(env, argnodes, kernel, i, args,
               IF kernel THEN visitKFuncArg(env, argnodes[i])
               ELSE visitFuncArg(env, argnodes[i]))

(***************************************************************************)
(* Maps from names to measure values (MeasureVars).                        *)
(***************************************************************************)
EmptyVars == [n \in {} |-> NoMV]
Put(m, k, v) == [n \in DOMAIN m \cup {k} |-> IF n = k THEN v ELSE m[n]]

(***************************************************************************)
(* The kernel function print: [outvars, lastError] after the arguments     *)
(* from the i-th on.                                                       *)
(***************************************************************************)
\* print without the test that the variable is bound
RECURSIVE print_unchecked(_, _, _, _, _)
print_unchecked(env, out, lerr, args, i) ==
  IF i > Len(args) THEN [outvars |-> out, lastError |-> lerr]
  ELSE IF args[i].kind = "var"
  THEN print_unchecked(env,
         Put(out, args[i].Name,
             IF args[i].Name \in DOMAIN env THEN env[args[i].Name] ELSE NoMV),
         lerr, args, i + 1)
  ELSE print_unchecked(env, out, Err("BadArgument", "print"), args, i + 1)

RECURSIVE print(_, _, _, _, _)
print(env, out, lerr, args, i) ==
  IF i > Len(args) THEN [outvars |-> out, lastError |-> lerr]
  ELSE IF args[i].kind = "var"
  THEN IF args[i].Name \notin DOMAIN env
       THEN print(env, out, lerr, args, i + 1)
       ELSE print(env, Put(out, args[i].Name, env[args[i].Name]), lerr,
                  args, i + 1)
  ELSE print(env, out, Err("BadArgument", "print"), args, i + 1)

(***************************************************************************)
(* The reflective call of a user function.                                 *)
(***************************************************************************)
ResMV(mv) == [kind |-> "mv", mv |-> mv]
ResNilMV == [kind |-> "nilmv"]
ResErr == [kind |-> "err"]
ResNilErr == [kind |-> "nilerr"]

Assignable(arg, ptype) ==
  IF ptype = "*MeasureValue" THEN arg.kind \in {"mv", "nilmv"}
  ELSE IF ptype = "string" THEN arg.kind = "str"
  ELSE TRUE

\* reflect.Value.Call panics on a wrong argument count or type; so does a
\* function whose body panics
callPanics(f, args) ==
  \/ ~f.variadic /\ Len(args) # Len(f.params)
  \/ f.variadic /\ Len(args) < Len(f.params)
  \/ \E i \in DOMAIN f.params :
       i <= Len(args) /\ ~Assignable(args[i], f.params[i])
  \/ f.body = "panic"

\* the values the function returns
fnValueCall(f, args) ==
  IF f.body = "first"
  THEN IF args[1].kind = "mv" THEN <<ResMV(args[1].mv)>> ELSE <<ResNilMV>>
  ELSE IF f.body = "any"
  THEN IF Len(args) = 0 THEN <<ResNilMV, ResErr>>
       ELSE <<ResMV(makeMeasureValue(Dec(1), n_kg)), ResNilErr>>
  ELSE << >>

\* function.call: [results, err]; the first error-typed result decides
functionCall(f, args) ==
  LET results == fnValueCall(f, args)
      inds == errorIndexes(f)
  IN  IF inds = {} THEN [results |-> results, err |-> NoErr]
      ELSE LET ind == CHOOSE i \in inds : \A j \in inds : i <= j
           IN  IF results[ind].kind = "nilerr"
               THEN [results |-> results, err |-> NoErr]
               ELSE [results |-> << >>, err |-> Err("HostError", "")]

\* call without the recorded error of a trapped panic
call_swallow(f, args, lerr) ==
  IF callPanics(f, args)
  THEN [mv |-> NoMV, err |-> NoErr, lastError |-> lerr]
  ELSE LET r == functionCall(f, args)
       IN  IF r.err # NoErr
           THEN [mv |-> NoMV, err |-> r.err, lastError |-> lerr]
           ELSE IF Len(r.results) = 0
           THEN [mv |-> NoMV, err |-> NoErr, lastError |-> lerr]
           ELSE [mv |-> IF r.results[1].kind = "mv" THEN r.results[1].mv
                        ELSE NoMV,
                 err |-> NoErr, lastError |-> lerr]

\* Interpreter.call on a user function: [mv, err, lastError]
call(f, args, lerr) ==
  IF callPanics(f, args)
  THEN [mv |-> NoMV, err |-> NoErr,
        lastError |-> Err("CallFailed", f.funcName)]
  ELSE LET r == functionCall(f, args)
       IN  IF r.err # NoErr
           THEN [mv |-> NoMV, err |-> r.err, lastError |-> lerr]
           ELSE IF Len(r.results) = 0
           THEN [mv |-> NoMV, err |-> NoErr, lastError |-> lerr]
           ELSE IF Len(r.results) <= 2
           THEN [mv |-> IF r.results[1].kind = "mv" THEN r.results[1].mv
                        ELSE NoMV,
                 err |-> NoErr, lastError |-> lerr]
           ELSE [mv |-> NoMV, err |-> Err("UnexpectedResults", f.funcName),
                 lastError |-> lerr]

(***************************************************************************)
(* Statements.  A visit returns [st, mv, err, outvars, lastError, called]: *)
(* st = "ok", "err" or "panic"; called tells whether the function was      *)
(* invoked.                                                                *)
(***************************************************************************)
Visit(st, mv, e, out, lerr, called) ==
  [st |-> st, mv |-> mv, err |-> e, outvars |-> out, lastError |-> lerr,
   called |-> called]

\* the kernel branch of visitFuncCall, r being the evaluated arguments
printResult(p) == Visit("ok", NoMV, NoErr, p.outvars, p.lastError, TRUE)
\* kernelCall going on without the arguments when one of them fails
kernelCall_lenient(env, out, lerr, r) ==
  IF r.st = "panic" THEN Visit(r.st, NoMV, r.err, out, lerr, FALSE)
  ELSE printResult(print(env, out, lerr, r.args, 1))

kernelCall(env, out, lerr, r) ==
  IF r.st # "ok" THEN Visit(r.st, NoMV, r.err, out, lerr, FALSE)
  ELSE printResult(print(env, out, lerr, r.args, 1))

\* the user branch of visitFuncCall
callResult(out, c) ==
  Visit(IF c.err = NoErr THEN "ok" ELSE "err", c.mv, c.err, out,
        c.lastError, TRUE)
userCall(f, out, lerr, r) ==
  IF r.st # "ok" THEN Visit(r.st, NoMV, r.err, out, lerr, FALSE)
  ELSE callResult(out, call(f, r.args, lerr))

visitFuncCall(env, out, lerr, a) ==
  IF a.fn \in kfuncs
  THEN kernelCall(env, out, lerr, visitArgs(env, a.args, TRUE, 1, << >>))
  ELSE IF ~\E f \in funcs : f.funcName = a.fn
  THEN Visit("err", NoMV, Err("UnknownFunc", a.fn), out, lerr, FALSE)
  ELSE userCall(CHOOSE g \in funcs : g.funcName = a.fn, out, lerr,
                visitArgs(env, a.args, FALSE, 1, << >>))

\* visitAssignment and visitRoot: [st, err, mvvars, outvars, lastError,
\* called]
Done(st, e, env, out, lerr, called) ==
  [st |-> st, err |-> e, mvvars |-> env, outvars |-> out,
   lastError |-> lerr, called |-> called]

\* the binding of the target to the result of a call, of an expression
\* assignCall dropping what the call returned
assignCall_dropped(env, variable, r) ==
  IF r.st # "ok"
  THEN Done(r.st, r.err, env, r.outvars, r.lastError, r.called)
  ELSE Done("ok", NoErr, env, r.outvars, r.lastError, r.called)

assignCall(env, variable, r) ==
  IF r.st # "ok"
  THEN Done(r.st, r.err, env, r.outvars, r.lastError, r.called)
  ELSE Done("ok", NoErr,
            IF r.mv # NoMV THEN Put(env, variable, r.mv) ELSE env,
            r.outvars, r.lastError, r.called)

\* assignExpr unbinding the target when the expression fails
assignExpr_unbinding(env, out, lerr, variable, ans) ==
  IF ans.st # "ok"
  THEN Done(ans.st, ans.err, [n \in DOMAIN env \ {variable} |-> env[n]], out,
            lerr, FALSE)
  ELSE Done("ok", NoErr, Put(env, variable, ans.mv), out, lerr, FALSE)

\* assignExpr with an output set that shares the cell of a printed variable
assignExpr_throughOutput(env, out, lerr, variable, ans) ==
  IF ans.st # "ok" THEN Done(ans.st, ans.err, env, out, lerr, FALSE)
  ELSE Done("ok", NoErr, Put(env, variable, ans.mv),
            IF variable \in DOMAIN out THEN Put(out, variable, ans.mv)
            ELSE out,
            lerr, FALSE)

assignExpr(env, out, lerr, variable, ans) ==
  IF ans.st # "ok" THEN Done(ans.st, ans.err, env, out, lerr, FALSE)
  ELSE Done("ok", NoErr, Put(env, variable, ans.mv), out, lerr, FALSE)

visitAssignment(env, out, lerr, a) ==
  IF a.node.type = "FuncCall"
  THEN assignCall(env, a.variable, visitFuncCall(env, out, lerr, a.node))
  ELSE assignExpr(env, out, lerr, a.variable, visitAExpr(env, a.node))

rootCall(env, r) == Done(r.st, r.err, env, r.outvars, r.lastError, r.called)

visitRoot(env, out, lerr, root) ==
  IF root.type = "Assignment" THEN visitAssignment(env, out, lerr, root)
  ELSE IF root.type = "FuncCall"
  THEN rootCall(env, visitFuncCall(env, out, lerr, root))
  ELSE Done("ok", NoErr, env, out, lerr, FALSE)

(***************************************************************************)
(* The lines a script is made of, as token sequences.                      *)
(***************************************************************************)
P(c) == Tok(c)
Lit(n, d, u) == <<NUM(n, d), UNIT(u)>>
CallOf(fn, argtoks) == <<IDENT(fn), P("(")>> \o argtoks \o <<P(")")>>
AssignOf(x, toks) == <<IDENT(x), P("=")>> \o toks
Terminated(toks) == toks \o <<P(";")>>
Paren(toks) == <<P("(")>> \o toks \o <<P(")")>>

CO2xCH2 == <<IDENT("CO2"), P("*"), IDENT("CH2"), P("*")>>

\* calls and assignments of the grammar, without the terminator
Bodies ==
  { CallOf("print", <<IDENT("a")>>),
    CallOf("print", <<IDENT("a"), P(","), IDENT("b")>>),
    CallOf("print", <<IDENT("c")>>),
    CallOf("print", <<IDENT("b"), P(",")>> \o Lit(1, 1, n_kg)),
    CallOf("print", <<LITERALSTR("hello")>>),
    CallOf("print", <<NUM(1, 1)>>),
    CallOf("print", <<IDENT("a"), P(","), IDENT("a"), P("+"), IDENT("a")>>),
    CallOf("print", << >>),
    AssignOf("a", <<IDENT("a"), P("+"), IDENT("a")>>),
    AssignOf("a", <<IDENT("a"), P("+")>> \o Lit(2, 1, n_kg)),
    AssignOf("a", <<IDENT("a"), P("+"),
                    LITERALMV(Lit(2, 1, n_kg))>>),
    AssignOf("b", <<IDENT("a")>>),
    AssignOf("b", <<IDENT("b"), P("*"), IDENT("b"), P("+")>>
                  \o Lit(2, 1, n_kg)),
    AssignOf("b", <<P("-"), IDENT("a")>>),
    AssignOf("a", <<P("-"), IDENT("a"), P("+"), IDENT("a")>>),
    AssignOf("a", <<IDENT("a"), P("*"), P("-"), NUM(1, 1)>>),
    AssignOf("c", Lit(1, 1, n_kg) \o <<P("+")>> \o Lit(1, 1, n_m)),
    AssignOf("c", <<IDENT("c"), P("+"), NUM(1, 1)>>),
    AssignOf("a", <<IDENT("a"), P("+")>> \o Lit(2, 1, n_kg)
                  \o <<P("+"), IDENT("c")>>),
    AssignOf("a", CO2xCH2 \o <<NUM(2, 1), P("/"), NUM(1, 1)>>),
    AssignOf("a", <<NUM(2, 1), P("+"), NUM(2, 1), P("/"), NUM(1, 1)>>),
    AssignOf("a", CallOf("fInt", <<IDENT("a")>>)),
    AssignOf("a", CallOf("fInt", <<IDENT("c")>>)),
    AssignOf("a", CallOf("fInt", << >>)),
    AssignOf("a", CallOf("fInt", <<LITERALSTR("hello")>>)),
    AssignOf("b", CallOf("fAny", <<IDENT("a")>>)),
    AssignOf("b", CallOf("fAny", << >>)),
    AssignOf("a", CallOf("fVoid", << >>)),
    AssignOf("a", CallOf("fPanic", << >>)),
    AssignOf("a", CallOf("print", <<IDENT("a")>>)),
    CallOf("fAny", << >>),
    CallOf("fPanic", << >>),
    CallOf("fVoid", << >>),
    CallOf("fInt", Lit(1, 1, n_kg)),
    CallOf("fNone", << >>) }

\* assignments with a parenthesized sub-expression
ParenBodies ==
  { AssignOf("a", CO2xCH2 \o Paren(<<NUM(1, 1), P("+"), NUM(2, 1)>>)),
    AssignOf("a", CO2xCH2 \o Paren(<<NUM(1, 1), P("-"), NUM(2, 1)>>)),
    AssignOf("a", CO2xCH2 \o Paren(<<NUM(2, 1), P("/"), NUM(1, 1)>>)) }

\* lines that lack the terminator where the grammar wants it
Unterminated ==
  { CallOf("print", <<IDENT("a")>>),
    AssignOf("a", <<IDENT("a"), P("+"), IDENT("a")>>),
    AssignOf("a", <<IDENT("a"), P("+")>> \o Lit(1, 1, n_kg)),
    AssignOf("a", CallOf("fInt", <<IDENT("a")>>)),
    AssignOf("a", <<NUM(1, 1)>>)
      \o Terminated(CallOf("print", <<IDENT("a")>>)),
    Terminated(CallOf("print", <<IDENT("a")>>)) \o <<P(";")>>,
    Terminated(CallOf("print", <<IDENT("a")>>))
      \o Terminated(CallOf("print", <<IDENT("a")>>)),
    <<P(";")>> }

EmptyLine == << >>

Lines ==
  {EmptyLine} \cup {Terminated(b) : b \in Bodies \cup ParenBodies}
  \cup Unterminated

(***************************************************************************)
(* The variables NewInterpreter is given, after makeMeasureValueFromString *)
(***************************************************************************)
InitVars ==
  { [n \in {"a", "b"} |->
       IF n = "a" THEN makeMeasureValue(Dec(1), n_kg)
       ELSE makeMeasureValue(Dec(1), n_km3)],
    [n \in {"CO2", "CH2"} |->
       IF n = "CO2" THEN makeMeasureValue(Dec(110), n_kg)
       ELSE makeMeasureValue(Rat(72, 10), n_kg)],
    [n \in {"a"} |-> makeUnitlessMeasureValue(Dec(2))],
    EmptyVars }

(***************************************************************************)
(* The interpreter.                                                        *)
(***************************************************************************)
NoResult == [nil |-> TRUE, vars |-> EmptyVars]
NoLast ==
  [kind |-> "none", expr |-> << >>, root |-> NoNode, mvvars |-> EmptyVars,
   outvars |-> EmptyVars, lastError |-> NoErr, called |-> FALSE,
   produced |-> FALSE]
NoOp == [nil |-> TRUE]

\* the magnitude of a bound value stays within MaxVal
SiMag(mv) ==
  Abs(mv.value.n) * (IF IsUnit(mv.unit) THEN SiFactor(GetByName(mv.unit)).n
                     ELSE 1)
InBound(env) ==
  \A n \in DOMAIN env : SiMag(env[n]) <= MaxVal /\ env[n].value.d <= MaxVal

\* the names a print statement names while they are bound
PrintNamed(root, env) ==
  LET fc == IF root.type = "Assignment" THEN root.node ELSE root
  IN  IF fc.type = "FuncCall" /\ fc.fn = "print"
      THEN {fc.args[i].Name : i \in
              {j \in DOMAIN fc.args : fc.args[j].type = "Var"
                                      /\ fc.args[j].Name \in DOMAIN env}}
      ELSE {}

\* the line itself produces an error: a syntax error, an error of the
\* evaluation, or an error recorded in lastError by a call of this line
Fails(p, v) ==
  \/ ~p.ok
  \/ p.node # NoNode /\ (v.st = "err" \/ v.lastError # NoErr)
FailsParsed(env, out, p) == Fails(p, visitRoot(env, out, NoErr, p.node))
LineFails(env, out, expr) == FailsParsed(env, out, parseOneExpr(expr))

Init ==
  /\ mvvars \in InitVars
  /\ outvars = EmptyVars
  /\ lastError = NoErr
  /\ status = "idle"
  /\ result = NoResult
  /\ err = NoErr
  /\ nlines = 0
  /\ nruns = 0
  /\ printed = {}
  /\ last = NoLast
  /\ opA = NoOp /\ opB = NoOp /\ opOut = NoOp
  /\ fnsGiven = UserFuncs
  /\ intrp = constructed(registerAll({}, UserFuncs, 1))
  /\ lookup = NoOp
  /\ scan = NoOp

\* what Interpret returns with an error: no output map (return nil, err)
returnError_withMap(out) == [nil |-> FALSE, vars |-> out]

returnError(out) == NoResult

\* a call of Interpret on the interpreter
Interpret ==
  /\ status \in {"idle", "returned", "error"}
  /\ nruns < MaxRuns
  /\ status' = "running"
  /\ nruns' = nruns + 1
  /\ result' = NoResult
  /\ err' = NoErr
  /\ last' = NoLast
  /\ UNCHANGED <<mvvars, outvars, lastError, nlines, printed, opA, opB, opOut,
                 fnsGiven, intrp, lookup>>
  /\ UNCHANGED scan

\* the record of the line just processed
Last(kind, expr, p, v, produced) ==
  [kind |-> kind, expr |-> expr, root |-> p.node, mvvars |-> mvvars,
   outvars |-> outvars, lastError |-> lastError,
   called |-> IF p.ok /\ p.node # NoNode THEN v.called ELSE FALSE,
   produced |-> produced]

\* the body of the loop, p being the parsed line and v its visit
ScanParsed(expr, p, v, produced) ==
  IF ~p.ok
  THEN /\ status' = "error"
       /\ err' = Err("Syntax", "")
       /\ result' = returnError(outvars)
       /\ last' = Last("syntax", expr, p, v, produced)
       /\ UNCHANGED <<mvvars, outvars, lastError, printed>>
  ELSE IF p.node = NoNode
  THEN /\ last' = Last("empty", expr, p, v, produced)
       /\ UNCHANGED <<mvvars, outvars, lastError, printed, status, err,
                      result>>
  ELSE IF v.st = "panic"
  THEN /\ status' = "panic"
       /\ last' = Last("panic", expr, p, v, produced)
       /\ UNCHANGED <<mvvars, outvars, lastError, printed, err, result>>
  ELSE /\ InBound(v.mvvars)
       /\ mvvars' = v.mvvars
       /\ outvars' = v.outvars
       /\ lastError' = v.lastError
       /\ printed' = printed \cup
            (IF v.called THEN PrintNamed(p.node, mvvars) ELSE {})
       /\ IF v.st = "err"
          THEN /\ status' = "error"
               /\ err' = v.err
               /\ result' = returnError(v.outvars)
               /\ last' = Last("err", expr, p, v, produced)
          ELSE IF v.lastError # NoErr
          THEN /\ status' = "error"
               /\ err' = v.lastError
               /\ result' = returnError(v.outvars)
               /\ last' = Last("lasterr", expr, p, v, produced)
          ELSE /\ last' = Last("ok", expr, p, v, produced)
               /\ UNCHANGED <<status, err, result>>

ScanVisit(expr, p) ==
  ScanParsed(expr, p, visitRoot(mvvars, outvars, lastError, p.node),
             LineFails(mvvars, outvars, expr))

\* one turn of the loop of Interpret on the line expr
ScanLine(expr) ==
  /\ status = "running"
  /\ nlines < MaxLines
  /\ nlines' = nlines + 1
  /\ ScanVisit(expr, parseOneExpr(expr))
  /\ UNCHANGED <<nruns, opA, opB, opOut, fnsGiven, intrp, lookup>>
  /\ UNCHANGED scan

\* the reader is exhausted: Interpret returns the output set
EndOfInput ==
  /\ status = "running"
  /\ status' = "returned"
  /\ result' = [nil |-> FALSE, vars |-> outvars]
  /\ err' = NoErr
  /\ UNCHANGED <<mvvars, outvars, lastError, nlines, nruns, printed, last,
                 opA, opB, opOut, fnsGiven, intrp, lookup>>
  /\ UNCHANGED scan

Next ==
  \/ Interpret
  \/ \E expr \in Lines : ScanLine(expr)
  \/ EndOfInput

Spec == Init /\ [][Next]_vars

(***************************************************************************)
(* The measure-value operations on their own: the operands are drawn from  *)
(* OpValues and Apply computes every operation on them.                    *)
(***************************************************************************)
CatalogNames == {Name(u) : u \in CatalogUnits}

OpValues ==
  {makeUnitlessMeasureValue(Dec(n)) : n \in {0, 1, 2}}
  \cup {makeMeasureValue(Dec(n), u) : n \in {1, 2}, u \in CatalogNames}
  \cup {makeMeasureValue(Dec(0), n_kg),
        makeMeasureValue(Dec(1), <<"x">>),
        makeMeasureValue(Rat(5, 2), n_Mg),
        Neg(makeMeasureValue(Dec(1), n_kg)),
        Neg(makeUnitlessMeasureValue(Dec(1)))}

InitOps ==
  /\ mvvars = EmptyVars
  /\ outvars = EmptyVars
  /\ lastError = NoErr
  /\ status = "ops"
  /\ result = NoResult
  /\ err = NoErr
  /\ nlines = 0
  /\ nruns = 0
  /\ printed = {}
  /\ last = NoLast
  /\ opA \in OpValues
  /\ opB \in OpValues
  /\ opOut = NoOp
  /\ fnsGiven = << >>
  /\ intrp = NoOp
  /\ lookup = NoOp
  /\ scan = NoOp

\* a value of a catalog unit taken to SI and converted back to its unit
backFromSi(mv) ==
  IF mv.um /\ ~mv.unitless /\ IsUnit(mv.unit)
  THEN To(toSi(mv, GetByName(mv.unit)), mv.unit)
  ELSE NoOp

Apply ==
  /\ opOut = NoOp
  /\ opOut' = [add |-> Add(opA, opB), sub |-> Sub(opA, opB),
               mul |-> Mul(opA, opB), div |-> Div(opA, opB),
               neg |-> Neg(opA), to |-> To(opA, opB.unit),
               back |-> backFromSi(opA)]
  /\ UNCHANGED <<mvvars, outvars, lastError, status, result, err, nlines,
                 nruns, printed, last, opA, opB, fnsGiven, intrp, lookup>>
  /\ UNCHANGED scan

NextOps == Apply

SpecOps == InitOps /\ [][NextOps]_vars

(***************************************************************************)
(* The construction of an interpreter on its own: NewInterpreter is given  *)
(* up to MaxFuncs host functions of FuncPool, and a name is then looked up *)
(* in the tables of the interpreter it returned.                           *)
(***************************************************************************)
\* host functions of other signatures and names
fErr == Func("fErr", << >>, FALSE, <<"error">>, "void")
fStr == Func("fStr", << >>, FALSE, <<"string">>, "void")
fSwapped == Func("fSwapped", << >>, FALSE, <<"error", "*MeasureValue">>, "void")
fTwoMV ==
  Func("fTwoMV", << >>, FALSE, <<"*MeasureValue", "*MeasureValue">>, "void")
fThree ==
  Func("fThree", << >>, FALSE, <<"*MeasureValue", "error", "error">>, "void")
userPrint == Func("print", <<"string">>, FALSE, << >>, "void")
otherInt == Func("fInt", << >>, FALSE, << >>, "void")

FuncPool ==
  {fInt, fAny, fVoid, fErr, fStr, fSwapped, fTwoMV, fThree, userPrint,
   otherInt}

FuncLists ==
  UNION {[1..n -> FuncPool] : n \in 0..MaxFuncs}

LookupNames == {"print", "fInt", "fVoid", "fThree", "fNone"}

InitNew ==
  /\ mvvars = EmptyVars
  /\ outvars = EmptyVars
  /\ lastError = NoErr
  /\ status = "new"
  /\ result = NoResult
  /\ err = NoErr
  /\ nlines = 0
  /\ nruns = 0
  /\ printed = {}
  /\ last = NoLast
  /\ opA = NoOp /\ opB = NoOp /\ opOut = NoOp
  /\ fnsGiven \in FuncLists
  /\ intrp = NoOp
  /\ lookup = NoOp
  /\ scan = NoOp

\* NewInterpreter(vars, fns...)
NewInterpreter ==
  /\ status = "new"
  /\ intrp = NoOp
  /\ intrp' = constructed(registerAll({}, fnsGiven, 1))
  /\ UNCHANGED <<mvvars, outvars, lastError, status, result, err, nlines,
                 nruns, printed, last, opA, opB, opOut, fnsGiven, lookup>>
  /\ UNCHANGED scan

\* the lookup of visitFuncCall for a call of name
Lookup(name) ==
  /\ status = "new"
  /\ intrp # NoOp
  /\ ~intrp.nil
  /\ lookup = NoOp
  /\ lookup' = [name |-> name,
                table |-> resolve(intrp.kfuncs, intrp.funcs, name)]
  /\ UNCHANGED <<mvvars, outvars, lastError, status, result, err, nlines,
                 nruns, printed, last, opA, opB, opOut, fnsGiven, intrp>>
  /\ UNCHANGED scan

NextNew ==
  \/ NewInterpreter
  \/ \E name \in LookupNames : Lookup(name)

SpecNew == InitNew /\ [][NextNew]_vars

(***************************************************************************)
(* The unit manager and the lexer on their own: Peek, GetByName, Lex and   *)
(* NewMeasureValueFromString are applied to texts.                         *)
(***************************************************************************)
\* what follows a name in a text given to Peek
Suffixes ==
  { << >>,
    <<"e">>,
    <<"_">>,
    <<"3">>,
    <<" ">>,
    <<";">>,
    <<"/", "m", "3">>,
    <<" ", "=", " ", "1">> }

\* a catalog name, plain or in brackets, or no name, and what follows it
PeekInputs ==
  {n \o f : n \in appended \cup {<<"x">>, << >>, <<"(", "k", "g", ")">>},
            f \in Suffixes}

\* the names looked up: every pair of meta units and every meta unit, plain
\* and in brackets
bracketed(name) == <<"(">> \o name \o <<")">>
slashed(n, d) == n.name \o <<"/">> \o d.name
UnitQueries ==
  {slashed(n, d) : n \in MetaSet, d \in MetaSet}
  \cup {bracketed(slashed(n, d)) : n \in MetaSet, d \in MetaSet}
  \cup {n.name : n \in MetaSet} \cup {bracketed(n.name) : n \in MetaSet}

\* the inner texts of quoted literals
Inners ==
  { <<"k", "g">>,
    <<"1", "0", "^", "3", "m", "3">>,
    <<"1", "0", "(", "1", "0", "^", "3", "m", "3", ")">>,
    <<"1", "k", "g">>,
    <<"1", " ", "k", "g">>,
    <<"h", "e", "l", "l", "o">>,
    <<"1", " ", "2">>,
    <<"k", "g", " ", "k", "g">>,
    <<"h", "e", "l", "l", "o", " ", "k", "g">>,
    <<"1">>,
    << >>,
    <<"k", "g", " ", "1">>,
    <<"1", "k", "g", " ", "k", "g">>,
    <<"(", "1", "0", "^", "3", "m", "3", ")">>,
    <<"2", ".", "5", "M", "g">>,
    <<"1", ".", "1", "E", "-", "0", "4", "k", "g", "/", "1", "0", "^", "3", "m",
      "3">>,
    <<"m">>,
    <<"m", "e">> }

\* lines of scripts and of the lexer test
ScriptTexts ==
  { <<"1", "k", "g", "/", "m", "3", ",", " ", "1", "k", "g">>,
    <<"S", "I", " ", "=", " ", "C", "o", "n", "v", "e", "r", "t", "(", "a", "c",
      "t", "i", "v", "i", "t", "y", "_", "v", "a", "l", "u", "e", ",", " ", "a",
      "c", "t", "i", "v", "i", "t", "y", "_", "u", "n", "i", "t", ",", " ",
      "\"", "1", "0", "^", "3", "m", "3", "\"", ",", " ", "\"", "h", "e", "l",
      "l", "o", "\"", ",", " ", "1", "2", "3", ".", "1", "2", "3", ",", " ",
      "\"", "1", "0", "(", "1", "0", "^", "3", "m", "3", ")", "\"", ")">>,
    <<"a", " ", "=", " ", "a", " ", "+", " ", "2", "k", "g", ";">>,
    <<"m", " ", "=", " ", "1", ";">>,
    <<"m", "e", " ", "=", " ", "1", ";">>,
    <<"p", "r", "i", "n", "t", "(", "a", ",", " ", "b", ")", ";">>,
    <<"b", " ", "=", " ", "-", "a", " ", "*", " ", "2", "(", "1", "0", "^", "3",
      "m", "3", ")", " ", "/", " ", ".", "5", "e", "1", ";">>,
    <<"\"", "u", "n", "t", "e", "r", "m", "i", "n", "a", "t", "e", "d">>,
    <<"1", "k", "g", "/", "M", "g">> }

\* texts of measure values
ValueTexts ==
  { <<"1", "(", "1", "0", "^", "3", "m", "3", ")">>,
    <<"1", "k", "g", "/", "m", "3">>,
    <<"1", ".", "1", "E", "-", "0", "4", "(", "M", "g", "/", "1", "0", "^", "3",
      "m", "3", ")">>,
    <<"1", ".", "1", "E", "-", "0", "4", "M", "g", "/", "1", "0", "^", "3", "m",
      "3">>,
    <<"1", ",", " ", "k", "g">> }

quoted(s) == <<Quote>> \o s \o <<Quote>>

LexInputs == ScriptTexts \cup {quoted(s) : s \in Inners}
MeasureInputs == ValueTexts \cup Inners

InitLex ==
  /\ mvvars = EmptyVars
  /\ outvars = EmptyVars
  /\ lastError = NoErr
  /\ status = "lex"
  /\ result = NoResult
  /\ err = NoErr
  /\ nlines = 0
  /\ nruns = 0
  /\ printed = {}
  /\ last = NoLast
  /\ opA = NoOp /\ opB = NoOp /\ opOut = NoOp
  /\ fnsGiven = << >>
  /\ intrp = NoOp
  /\ lookup = NoOp
  /\ scan = NoOp

\* what an operation of the lexer leaves alone
Scanned(s) ==
  /\ status = "lex"
  /\ scan = NoOp
  /\ UNCHANGED <<mvvars, outvars, lastError, status, result, err, nlines,
                 nruns, printed, last, opA, opB, opOut, fnsGiven, intrp,
                 lookup>>

\* StdUm.Peek(s)
DoPeek(s) ==
  /\ scan' = [op |-> "Peek", in |-> s, n |-> Peek(s).n, ok |-> Peek(s).ok]
  /\ Scanned(s)

\* StdUm.GetByName(name) and StdUm.IsUnit(name)
DoGetByName(name) ==
  /\ scan' = [op |-> "GetByName", in |-> name, ok |-> IsUnit(name),
              unit |-> IF IsUnit(name) THEN GetByName(name) ELSE NoOp]
  /\ Scanned(name)

\* the tokens of a text, read with Lex up to eof
DoLex(s) ==
  /\ scan' = [op |-> "Lex", in |-> s, lvals |-> lexAll(s, << >>)]
  /\ Scanned(s)

\* NewMeasureValueFromString(s)
DoNewMeasureValue(s) ==
  /\ scan' = [op |-> "NewMeasureValueFromString", in |-> s,
              r |-> NewMeasureValueFromChars(s)]
  /\ Scanned(s)

NextLex ==
  \/ \E s \in PeekInputs : DoPeek(s)
  \/ \E name \in UnitQueries : DoGetByName(name)
  \/ \E s \in LexInputs : DoLex(s)
  \/ \E s \in MeasureInputs : DoNewMeasureValue(s)

SpecLex == InitLex /\ [][NextLex]_vars

(***************************************************************************)
(* Properties of the interpreter.  last describes the line the loop has    *)
(* just processed and the interpreter as it was before that line.          *)
(***************************************************************************)
Processed == last.kind \notin {"none"}
Evaluated == last.kind \in {"ok", "err", "lasterr"}

\* the call of the last line, if it is or assigns a call
LastCall ==
  IF last.root.type = "Assignment" THEN last.root.node ELSE last.root
LastIsCall == Evaluated /\ LastCall.type = "FuncCall"
LastIsPrint == LastIsCall /\ LastCall.fn = "print"
LastFunc == CHOOSE f \in funcs : f.funcName = LastCall.fn
LastArgs == visitArgs(last.mvvars, LastCall.args, FALSE, 1, << >>)

\* C1: the output set holds a name only if an executed print named it as a
\* bare argument while it was bound; assignments and user calls leave the
\* output set alone; print of an unbound variable adds nothing and records
\* no error.
C1_OutputOnlyPrinted ==
  /\ DOMAIN outvars \subseteq printed
  /\ status = "returned" => DOMAIN result.vars \subseteq printed
  /\ Evaluated /\ ~(LastIsPrint /\ last.called) => outvars = last.outvars
  /\ LastIsPrint /\ last.called =>
       /\ DOMAIN outvars =
            DOMAIN last.outvars \cup PrintNamed(last.root, last.mvvars)
       /\ (\A i \in DOMAIN LastCall.args : LastCall.args[i].type = "Var")
            => lastError = last.lastError /\ last.kind # "err"

C1_Witness ==
  /\ status = "returned"
  /\ last.expr = Terminated(CallOf("print", <<IDENT("c")>>))
  /\ "c" \notin DOMAIN last.mvvars
  /\ DOMAIN result.vars = {"a"}
  /\ "b" \in DOMAIN mvvars

\* C2: a line that produces an error ends the run: Interpret returns the
\* error and no output map, the environment is the one before the line,
\* and nothing is scanned or changed after the return.
C2_ErrorState ==
  Processed /\ last.produced =>
    /\ status = "error"
    /\ err # NoErr
    /\ result = NoResult
    /\ mvvars = last.mvvars
    /\ last.kind = "syntax" => err.kind = "Syntax"
    /\ last.kind = "lasterr" => err = lastError

C2_StopsAtFirstError ==
  /\ [](C2_ErrorState)
  /\ [][status = "error" =>
          UNCHANGED <<mvvars, outvars, lastError, nlines>>]_vars

C2_Witness ==
  /\ status = "error"
  /\ nlines = 2
  /\ last.kind = "err"
  /\ err.kind = "UndefinedVariable"
  /\ last.mvvars # EmptyVars
  /\ nruns = 1

\* the bindings of the end-to-end scenario: CO2 = 110kg, CH2 = 7.2kg
ScenarioVars ==
  [n \in {"CO2", "CH2"} |->
     IF n = "CO2" THEN makeMeasureValue(Dec(110), n_kg)
     ELSE makeMeasureValue(Rat(72, 10), n_kg)]

\* the operation each operator stands for
opOf(op, lhs, rhs) ==
  IF op = "+" THEN Add(lhs, rhs)
  ELSE IF op = "-" THEN Sub(lhs, rhs)
  ELSE IF op = "*" THEN Mul(lhs, rhs)
  ELSE Div(lhs, rhs)

\* C3: an assignment of a binary expression binds its target to Add, Sub,
\* Mul or Div, as the operator says, of the evaluated operands (and fails
\* as that operation fails); a=CO2*CH2*2/1 binds a to 1584kg.
C3_DispatchDiv ==
  /\ Processed /\ last.kind # "syntax" /\ last.root.type = "Assignment"
     /\ last.root.node.type = "BinaryExpr" =>
       LET lhs == visitAExpr(last.mvvars, last.root.node.lhs)
           rhs == visitAExpr(last.mvvars, last.root.node.rhs)
           r == opOf(last.root.node.Op, lhs.mv, rhs.mv)
       IN  lhs.st = "ok" /\ rhs.st = "ok" =>
             /\ r.st = "ok" => /\ last.kind \in {"ok", "lasterr"}
                               /\ mvvars[last.root.variable] = r.mv
             /\ r.st = "err" => last.kind = "err"
             /\ r.st = "panic" => last.kind = "panic"
  /\ Processed /\ last.mvvars = ScenarioVars
     /\ last.expr = Terminated(AssignOf("a",
                      CO2xCH2 \o <<NUM(2, 1), P("/"), NUM(1, 1)>>)) =>
       /\ last.kind = "ok"
       /\ mvvars["a"] = makeMeasureValue(Dec(1584), n_kg)

\* C4: a parenthesized sub-expression is accepted and evaluated as a group:
\* with CO2 = 110kg and CH2 = 7.2kg, CO2*CH2*(1+2) is 2376kg, CO2*CH2*(1-2)
\* is -792kg and CO2*CH2*(2/1) is 1584kg.
C4_Parenthesized ==
  /\ Processed /\ last.expr \in {Terminated(b) : b \in ParenBodies} =>
       last.kind # "syntax"
  /\ Processed /\ last.mvvars = ScenarioVars =>
       /\ last.expr = Terminated(AssignOf("a",
            CO2xCH2 \o Paren(<<NUM(1, 1), P("+"), NUM(2, 1)>>))) =>
              /\ last.kind = "ok"
              /\ mvvars["a"] = makeMeasureValue(Dec(2376), n_kg)
       /\ last.expr = Terminated(AssignOf("a",
            CO2xCH2 \o Paren(<<NUM(1, 1), P("-"), NUM(2, 1)>>))) =>
              /\ last.kind = "ok"
              /\ mvvars["a"] = makeMeasureValue(Dec(-792), n_kg)
       /\ last.expr = Terminated(AssignOf("a",
            CO2xCH2 \o Paren(<<NUM(2, 1), P("/"), NUM(1, 1)>>))) =>
              /\ last.kind = "ok"
              /\ mvvars["a"] = makeMeasureValue(Dec(1584), n_kg)

\* C5: Interpret never terminates abnormally: every line ends with the run
\* going on, or with an error value returned.
C5_NeverPanics == status # "panic" /\ last.kind # "panic"

\* C6: a user function that panics (the reflective invocation included)
\* does not crash the interpreter: the run halts right after the line with
\* a CallFailed error naming the function, and the environment, the
\* assignment target included, is as before the line.
C6_PanicTrapped ==
  Processed /\ last.kind # "syntax" /\ LastCall.type = "FuncCall"
  /\ (\E f \in funcs : f.funcName = LastCall.fn)
  /\ LastArgs.st = "ok" /\ callPanics(LastFunc, LastArgs.args) =>
    /\ last.kind = "lasterr"
    /\ status = "error"
    /\ err = Err("CallFailed", LastFunc.funcName)
    /\ result = NoResult
    /\ mvvars = last.mvvars
    /\ outvars = last.outvars

C6_Witness ==
  /\ status = "error"
  /\ err = Err("CallFailed", "fPanic")
  /\ last.root.type = "Assignment"
  /\ last.root.variable \in DOMAIN mvvars
  /\ last.lastError = NoErr

\* C7: when a user function returns a non-nil error, Interpret returns a
\* CallFailed error that carries the name of the function.
C7_ErrorWrapped ==
  Processed /\ last.kind # "syntax" /\ LastCall.type = "FuncCall"
  /\ (\E f \in funcs : f.funcName = LastCall.fn)
  /\ LastArgs.st = "ok" /\ ~callPanics(LastFunc, LastArgs.args)
  /\ functionCall(LastFunc, LastArgs.args).err # NoErr =>
    /\ status = "error"
    /\ err = Err("CallFailed", LastFunc.funcName)

\* C8: the terminator is mandatory: a non-empty line that does not end
\* with ';' after its call or assignment is a syntax error, the calls and
\* assignments of the grammar followed by ';' are accepted, and the empty
\* line is accepted and changes nothing.
C8_TerminatorMandatory ==
  Processed =>
    /\ last.expr # EmptyLine /\ last.expr[Len(last.expr)].t # ";" =>
         last.kind = "syntax"
    /\ last.expr \in Unterminated => last.kind = "syntax"
    /\ last.kind = "syntax" =>
         status = "error" /\ err.kind = "Syntax" /\ result = NoResult
    /\ last.expr \in {Terminated(b) : b \in Bodies} => last.kind # "syntax"
    /\ last.expr = EmptyLine =>
         /\ last.kind = "empty"
         /\ status \in {"running", "returned"}
         /\ err = NoErr
         /\ mvvars = last.mvvars
         /\ outvars = last.outvars

C8_Witness ==
  /\ status = "error"
  /\ err.kind = "Syntax"
  /\ last.expr = AssignOf("a", <<NUM(1, 1)>>)
                   \o Terminated(CallOf("print", <<IDENT("a")>>))
  /\ nlines = 3

(***************************************************************************)
(* Properties of the measure-value operations.                             *)
(***************************************************************************)
Applied == opOut # NoOp
BothMeta(a, b) ==
  /\ ~a.unitless /\ ~b.unitless /\ a.um /\ b.um
  /\ IsUnit(a.unit) /\ IsUnit(b.unit)
  /\ IsMeta(GetByName(a.unit)) /\ IsMeta(GetByName(b.unit))
BothCompound(a, b) ==
  /\ ~a.unitless /\ ~b.unitless /\ a.um /\ b.um
  /\ IsUnit(a.unit) /\ IsUnit(b.unit)
  /\ ~IsMeta(GetByName(a.unit)) /\ ~IsMeta(GetByName(b.unit))

\* C9: Add and Sub fail, returning no value, when exactly one operand is
\* unitless and when the operands carry meta units of different
\* dimensions; they succeed when both operands are unitless.
C9_AddSubUnitless ==
  Applied =>
    /\ opA.unitless # opB.unitless =>
         opOut.add = OpErr /\ opOut.sub = OpErr
    /\ BothMeta(opA, opB)
       /\ GetByName(opA.unit).dimension # GetByName(opB.unit).dimension =>
         opOut.add = OpErr /\ opOut.sub = OpErr
    /\ opA.unitless /\ opB.unitless =>
         opOut.add.st = "ok" /\ opOut.sub.st = "ok"

C9_Witness ==
  /\ Applied
  /\ opA = makeMeasureValue(Dec(1), n_kg)
  /\ opB = makeMeasureValue(Dec(1), n_m)
  /\ opOut.add = OpErr

\* C10: Add and Sub of two values with compound units fail when a
\* numerator dimension or a denominator dimension differs.
C10_CompoundDims ==
  Applied /\ BothCompound(opA, opB) =>
    LET u == GetByName(opA.unit)
        ou == GetByName(opB.unit)
    IN  (u.Numerator.dimension # ou.Numerator.dimension
         \/ u.Denominator.dimension # ou.Denominator.dimension) =>
          opOut.add = OpErr /\ opOut.sub = OpErr

\* the SI value of a unit-bearing operand: value * factor + offset
SiValue(x) ==
  DAdd(DMul(x.value, SiFactor(GetByName(x.unit))), SiOffset(GetByName(x.unit)))
\* both meta of one dimension, or both compound with the same numerator
\* dimension and the same denominator dimension
MetaMatch(a, b) ==
  BothMeta(a, b)
  /\ GetByName(a.unit).dimension = GetByName(b.unit).dimension
CompoundMatch(a, b) ==
  BothCompound(a, b)
  /\ GetByName(a.unit).Numerator.dimension
       = GetByName(b.unit).Numerator.dimension
  /\ GetByName(a.unit).Denominator.dimension
       = GetByName(b.unit).Denominator.dimension
BothUnitless(a, b) == a.unitless /\ b.unitless /\ a.um /\ b.um

\* C11: for unit-bearing operands of matching dimension Add is the sum and
\* Sub the difference of the SI values, under the SI name of the left
\* operand's unit and not unitless; for two unitless operands they are the
\* plain sum and difference, unitless, with the empty unit.
C11_AddSubValue ==
  Applied =>
    /\ MetaMatch(opA, opB) \/ CompoundMatch(opA, opB) =>
         /\ opOut.add = OpOk(MV(DAdd(SiValue(opA), SiValue(opB)),
                                SiName(GetByName(opA.unit)), FALSE, TRUE))
         /\ opOut.sub = OpOk(MV(DSub(SiValue(opA), SiValue(opB)),
                                SiName(GetByName(opA.unit)), FALSE, TRUE))
    /\ BothUnitless(opA, opB) =>
         /\ opOut.add = OpOk(MV(DAdd(opA.value, opB.value), NoUnit, TRUE, TRUE))
         /\ opOut.sub = OpOk(MV(DSub(opA.value, opB.value), NoUnit, TRUE, TRUE))

C11_Witness ==
  /\ Applied
  /\ opA = makeMeasureValue(Dec(1), n_Mg)
  /\ opB = makeMeasureValue(Dec(2), n_kg)
  /\ opOut.add = OpOk(makeMeasureValue(Dec(1002), n_kg))
  /\ opOut.sub = OpOk(makeMeasureValue(Dec(998), n_kg))

\* the operand that carries the unit when exactly one operand is unitless
Bearing(a, b) == IF a.unitless THEN b ELSE a

\* C12: when exactly one operand of Mul is unitless, in either order, the
\* result is the product of the raw values under the unit of the
\* unit-bearing operand, and is not unitless.
C12_MulCoefficient ==
  Applied /\ opA.unitless # opB.unitless =>
    /\ opOut.mul.st = "ok"
    /\ opOut.mul.mv.value = DMul(opA.value, opB.value)
    /\ opOut.mul.mv.unit = Bearing(opA, opB).unit
    /\ ~opOut.mul.mv.unitless

C12_Witness ==
  /\ Applied
  /\ opA = makeUnitlessMeasureValue(Dec(2))
  /\ opB = makeMeasureValue(Dec(2), n_Mg)
  /\ opOut.mul = OpOk(makeMeasureValue(Dec(4), n_Mg))

\* both meta or both compound, with a dimension that differs
ShapeMismatch(a, b) ==
  \/ BothMeta(a, b) /\ ~MetaMatch(a, b)
  \/ BothCompound(a, b) /\ ~CompoundMatch(a, b)

Mixed(a, b) ==
  /\ ~a.unitless /\ ~b.unitless /\ a.um /\ b.um
  /\ IsUnit(a.unit) /\ IsUnit(b.unit)
  /\ IsMeta(GetByName(a.unit)) # IsMeta(GetByName(b.unit))
MetaOf(a, b) == IF IsMeta(GetByName(a.unit)) THEN a ELSE b
CompoundOf(a, b) == IF IsMeta(GetByName(a.unit)) THEN b ELSE a

\* C14: Mul of a meta value M and a compound value C = N/D, in either
\* order, is the product of the SI values under the SI name of N when the
\* dimension of D is the dimension of M, and fails otherwise;
\* 2kg/m3 * 2(10^3m3) = 4000kg.
C14_MulMixed ==
  Applied /\ Mixed(opA, opB) =>
    LET M == MetaOf(opA, opB)
        C == CompoundOf(opA, opB)
    IN  IF GetByName(C.unit).Denominator.dimension
             = GetByName(M.unit).dimension
        THEN opOut.mul = OpOk(MV(DMul(SiValue(M), SiValue(C)),
                                 GetByName(C.unit).Numerator.si, FALSE, TRUE))
        ELSE opOut.mul = OpErr

C14_Witness ==
  /\ Applied
  /\ opA = makeMeasureValue(Dec(2), n_kg \o <<"/">> \o n_m3)
  /\ opB = makeMeasureValue(Dec(2), n_km3)
  /\ opOut.mul = OpOk(makeMeasureValue(Dec(4000), n_kg))

\* C15: Div with exactly one unitless operand, the divisor not zero, is
\* lhs.value / rhs.value under the unit of the unit-bearing operand,
\* whichever operand is the unitless one.
C15_DivCoefficient ==
  Applied /\ opA.unitless # opB.unitless /\ ~IsZero(opB.value) =>
    /\ opOut.div.st = "ok"
    /\ opOut.div.mv.value = DDiv(opA.value, opB.value)
    /\ opOut.div.mv.unit = Bearing(opA, opB).unit

C17_NegKeepsUnit ==
  Applied =>
    /\ opOut.neg.value = DNeg(opA.value)
    /\ opOut.neg.unit = opA.unit
    /\ opOut.neg.unitless = opA.unitless

(***************************************************************************)
(* Properties of the construction.                                         *)
(***************************************************************************)
Constructed == status = "new" /\ intrp # NoOp
\* the return signatures the registration is to accept
Permitted(f) ==
  f.returnTypeNames \in
    {<< >>, <<"*MeasureValue">>, <<"*MeasureValue", "error">>}

\* C18: NewInterpreter returns an Interpreter only if every function it
\* is given returns nothing, one *MeasureValue, or (*MeasureValue, error);
\* with any other return signature, three or more results included, it
\* returns an error and no Interpreter.
C18_ReturnSignatures ==
  Constructed /\ (\E i \in DOMAIN fnsGiven : ~Permitted(fnsGiven[i])) =>
    intrp.nil /\ intrp.err # NoErr

\* C19: NewInterpreter returns an error and no Interpreter when a function
\* it is given has the name of a kernel function or the name of an earlier
\* one; in a constructed Interpreter the user functions have distinct
\* names, none of them a kernel name, and a kernel name is found in the
\* kernel table.
C19_NamesReserved ==
  Constructed =>
    /\ (\/ \E i \in DOMAIN fnsGiven : fnsGiven[i].funcName \in kfuncs
        \/ \E i, j \in DOMAIN fnsGiven :
             i < j /\ fnsGiven[i].funcName = fnsGiven[j].funcName)
         => intrp.nil /\ intrp.err # NoErr
    /\ ~intrp.nil =>
         /\ {f.funcName : f \in intrp.funcs} \cap intrp.kfuncs = {}
         /\ \A f, g \in intrp.funcs : f.funcName = g.funcName => f = g
         /\ Cardinality(intrp.funcs) = Len(fnsGiven)
    /\ lookup # NoOp /\ lookup.name \in kfuncs => lookup.table = "kernel"

C19_Witness ==
  /\ Constructed
  /\ fnsGiven = <<fInt, userPrint>>
  /\ intrp.nil
  /\ intrp.err = Err("OverridesKernelFunction", "print")

(***************************************************************************)
(* Properties of assignments.                                              *)
(***************************************************************************)
\* the last line assigned the result of a user function that was called
\* with evaluated arguments and returned without panic or error
AssignedUserCall ==
  /\ Processed /\ last.kind # "syntax"
  /\ last.root.type = "Assignment" /\ last.root.node.type = "FuncCall"
  /\ \E f \in funcs : f.funcName = last.root.node.fn
  /\ LastArgs.st = "ok"
  /\ ~callPanics(LastFunc, LastArgs.args)
  /\ functionCall(LastFunc, LastArgs.args).err = NoErr
LastResults == fnValueCall(LastFunc, LastArgs.args)

\* C20: an assignment of a call binds its target to the MeasureValue the
\* call returns and leaves the target as it was when the call returns
\* nothing (no result, or a nil *MeasureValue); every other variable and
\* the output set are as before the line.
C20_AssignCall ==
  AssignedUserCall =>
    /\ IF Len(LastResults) > 0 /\ LastResults[1].kind = "mv"
       THEN mvvars = Put(last.mvvars, last.root.variable, LastResults[1].mv)
       ELSE mvvars = last.mvvars
    /\ outvars = last.outvars

C20_Witness ==
  /\ last.expr = Terminated(AssignOf("a", CallOf("fInt", <<IDENT("c")>>)))
  /\ last.kind = "ok"
  /\ "a" \in DOMAIN last.mvvars
  /\ "c" \notin DOMAIN last.mvvars
  /\ mvvars = last.mvvars

(***************************************************************************)
(* Failing assignments.                                                    *)
(***************************************************************************)
\* the last line assigned an arithmetic expression
ExprAssignment ==
  Evaluated /\ last.root.type = "Assignment"
            /\ last.root.node.type # "FuncCall"

\* the variables an expression refers to
RECURSIVE Refs(_)
Refs(a) ==
  IF a.type = "Var" THEN {a.Name}
  ELSE IF a.type = "BinaryExpr" THEN Refs(a.lhs) \cup Refs(a.rhs)
  ELSE IF a.type = "UnaryExpr" THEN Refs(a.expr)
  ELSE {}

\* the leaf of an expression that is evaluated first
RECURSIVE FirstLeaf(_)
FirstLeaf(a) ==
  IF a.type = "BinaryExpr" THEN FirstLeaf(a.lhs)
  ELSE IF a.type = "UnaryExpr" THEN FirstLeaf(a.expr)
  ELSE a

Unbound == Refs(last.root.node) \ DOMAIN last.mvvars
FirstIsUnbound ==
  FirstLeaf(last.root.node).type = "Var"
  /\ FirstLeaf(last.root.node).Name \in Unbound

SomeNotVariable == \E i \in DOMAIN LastCall.args : LastCall.args[i].type # "Var"

\* the arguments of the last call evaluate in the environment of the line
ArgsEvaluate ==
  \A i \in DOMAIN LastCall.args :
     LastCall.args[i].type \notin {"Var", "LiteralStr"}
       => visitAExpr(last.mvvars, LastCall.args[i]).st = "ok"

\* C22 as stated: a print call with an argument that is not a bare variable
\* makes Interpret return a BadArgument error and no output map.
C22_BadArgument ==
  (LastIsPrint /\ SomeNotVariable) =>
    status = "error" /\ err.kind = "BadArgument" /\ result = NoResult

\* C22 amended: a print call with an argument that is not a bare variable
\* makes Interpret return an error and no output map; the error is
\* BadArgument, raised at the end of the line, when every argument
\* evaluates, and the error of the evaluation, raised before print runs,
\* when a compound expression among the arguments fails.
C22_BadArgumentEvaluated ==
  (LastIsPrint /\ SomeNotVariable) =>
    /\ status = "error" /\ result = NoResult
    /\ ArgsEvaluate =>
          last.kind = "lasterr" /\ err.kind = "BadArgument" /\ last.called
    /\ ~ArgsEvaluate =>
          /\ last.kind = "err" /\ ~last.called
          /\ err.kind \in {"UndefinedVariable", "IncompatibleUnits"}
          /\ outvars = last.outvars

\* print(a, a + a) with a bound: a is put in the output set and the error is
\* BadArgument
C22_Witness ==
  /\ LastIsPrint /\ SomeNotVariable /\ ArgsEvaluate
  /\ \E i \in DOMAIN LastCall.args : LastCall.args[i].type = "BinaryExpr"
  /\ "a" \in DOMAIN outvars /\ "a" \notin DOMAIN last.outvars
  /\ err.kind = "BadArgument" /\ result = NoResult

(***************************************************************************)
(* Conversions.                                                            *)
(***************************************************************************)
\* the operand is a value of a meta unit with no offset
MetaValue(x) ==
  /\ x.um /\ ~x.unitless /\ IsUnit(x.unit)
  /\ IsMeta(GetByName(x.unit))
  /\ IsZero(SiOffset(GetByName(x.unit)))

Peeked == scan # NoOp /\ scan.op = "Peek"
Got == scan # NoOp /\ scan.op = "GetByName"
Lexed == scan # NoOp /\ scan.op = "Lex"
Measured == scan # NoOp /\ scan.op = "NewMeasureValueFromString"

\* the catalog names, plain or in brackets, that head s and are followed
\* there by a separator or by the end of s
Heading(s) ==
  {n \in appended :
     /\ Len(n) <= Len(s)
     /\ SubSeq(s, 1, Len(n)) = n
     /\ startWithSeparator(From(s, Len(n) + 1))}

\* C24: Peek(s) returns (n, true) exactly when n is the greatest length of a
\* catalog name, plain or in brackets, that heads s and is followed by a
\* separator or the end of s, and (0, false) when there is no such name; a
\* name followed by a letter, a digit or '_' is never matched.
C24_PeekLongest ==
  Peeked =>
    /\ scan.ok <=> Heading(scan.in) # {}
    /\ scan.ok =>
         /\ \E n \in Heading(scan.in) : Len(n) = scan.n
         /\ \A n \in Heading(scan.in) : Len(n) <= scan.n
         /\ scan.n < Len(scan.in) =>
              LET c == scan.in[scan.n + 1]
              IN  ~isLetter(c) /\ ~isDigit(c) /\ c # "_"
    /\ ~scan.ok => scan.n = 0

\* kg/m3 is matched whole where kg, followed by '/', would match too
C24_Witness ==
  /\ Peeked /\ scan.ok
  /\ \E n \in Heading(scan.in) : Len(n) < scan.n
  /\ scan.n < Len(scan.in)

DigitFirst(name) == isDigit(name[1])

\* C25: GetByName finds a compound unit under n/d for every two meta units
\* n, d of different dimensions, under (n/d) too when the name of n or of d
\* begins with a digit, and a meta unit whose name begins with a digit
\* under (name).
C25_CatalogClosure ==
  Got =>
    /\ \A n, d \in MetaSet :
         n.dimension # d.dimension =>
           /\ scan.in = slashed(n, d) => scan.ok /\ ~IsMeta(scan.unit)
           /\ (DigitFirst(n.name) \/ DigitFirst(d.name))
              /\ scan.in = bracketed(slashed(n, d)) => scan.ok
    /\ \A n \in MetaSet :
         DigitFirst(n.name) /\ scan.in = bracketed(n.name) => scan.ok

NumberAndUnit(s) ==
  \E i \in 1..Len(s) :
     /\ matchNUM(SubSeq(s, 1, i)) = i
     /\ skipSpaces(From(s, i + 1)) \in appended

\* the inner text of the quoted literal that was lexed
IsQuoted(s) == Len(s) >= 2 /\ s[1] = Quote /\ quoteAt(s, 2) = Len(s)
Inner(s) == SubSeq(s, 2, Len(s) - 1)

\* C27: a quoted literal is lexed as UNIT when its inner text is a catalog
\* unit name, else as LITERALMV exactly when the inner text is a number
\* followed by a catalog unit, else as LITERALSTR; and
\* NewMeasureValueFromString rejects a text that is not a number followed by
\* a unit.
C27_LiteralClass ==
  /\ (Lexed /\ IsQuoted(scan.in)) =>
       /\ Len(scan.lvals) = 1
       /\ scan.lvals[1].token =
            IF IsUnit(Inner(scan.in)) THEN "UNIT"
            ELSE IF NumberAndUnit(Inner(scan.in)) THEN "LITERALMV"
            ELSE "LITERALSTR"
  /\ (Measured /\ ~NumberAndUnit(scan.in)) => ~scan.r.ok

(***************************************************************************)
(* The flag unitless.                                                      *)
(***************************************************************************)
\* a unitless value has the empty unit
UnitlessHasNoUnit(env) ==
  \A n \in DOMAIN env : env[n].unitless => env[n].unit = NoUnit

\* the last line bound its target to the result of a binary operation
BinaryAssigned ==
  /\ ExprAssignment /\ last.kind \in {"ok", "lasterr"}
  /\ last.root.node.type = "BinaryExpr"

\* the operands of that operation, evaluated in the environment of the line
LastLhs == visitAExpr(last.mvvars, last.root.node.lhs).mv
LastRhs == visitAExpr(last.mvvars, last.root.node.rhs).mv

Assigned ==
  /\ Evaluated /\ last.root.type = "Assignment"
  /\ ~(last.root.node.type = "FuncCall" /\ last.root.node.fn \in kfuncs)

\* C29: a print leaves in the output set, for each bound variable it names,
\* the value the variable is bound to at that moment; an assignment changes
\* no entry of the output set and no binding but that of its target.
C29_Snapshot ==
  /\ (LastIsPrint /\ last.called) =>
       \A n \in PrintNamed(last.root, last.mvvars) :
          n \in DOMAIN outvars /\ outvars[n] = last.mvvars[n]
  /\ Assigned =>
       /\ outvars = last.outvars
       /\ \A n \in DOMAIN last.mvvars \ {last.root.variable} :
            n \in DOMAIN mvvars /\ mvvars[n] = last.mvvars[n]

\* a printed variable is assigned a new value: its entry in the output set
\* keeps the printed one, and the other variable keeps its binding
C29_Witness ==
  /\ ExprAssignment /\ last.kind = "ok"
  /\ last.root.variable \in DOMAIN outvars
  /\ outvars[last.root.variable] # mvvars[last.root.variable]
  /\ outvars[last.root.variable] = last.mvvars[last.root.variable]
  /\ \E n \in DOMAIN mvvars :
       n # last.root.variable /\ mvvars[n] = last.mvvars[n]

\* the units u and t measure the same thing: two meta units of one
\* dimension, or two compound units of equal numerator and denominator
\* dimensions
Compatible(u, t) ==
  IF IsMeta(u) /\ IsMeta(t) THEN u.dimension = t.dimension
  ELSE IF ~IsMeta(u) /\ ~IsMeta(t)
  THEN /\ u.Numerator.dimension = t.Numerator.dimension
       /\ u.Denominator.dimension = t.Denominator.dimension
  ELSE FALSE

\* C30: To(t) of a value of unit u, both catalog units, succeeds only if u
\* and t are compatible; otherwise it returns an error and no value.
C30_ToCompatible ==
  (Applied /\ opA.um /\ ~opA.unitless /\ IsUnit(opA.unit)
           /\ IsUnit(opB.unit)) =>
    /\ opOut.to.st = "ok" =>
         Compatible(GetByName(opA.unit), GetByName(opB.unit))
    /\ ~Compatible(GetByName(opA.unit), GetByName(opB.unit)) =>
         opOut.to = OpErr

====
